---- MODULE Spec2Model ----
(***************************************************************************)
(* A model of martinopiaggi/summarize: the concurrent chunk dispatcher     *)
(* (summarizer/api.py and its older copy in summarizer/core.py), the run   *)
(* driver core.main, and the source-to-transcript acquisition pipeline     *)
(* (summarizer/transcription.py, handlers.py, downloaders/).               *)
(*                                                                         *)
(* Text is modelled as a sequence of one-character strings, so that        *)
(* str.lower, str.strip, the substring test and str.join are computed.     *)
(* The event loop is cooperative: every action below is the code a task    *)
(* runs between two suspension points (an await that really suspends).     *)
(* CancelledError is a BaseException (Python >= 3.8).                       *)
(***************************************************************************)
EXTENDS Integers, Sequences, FiniteSets, TLC

(***************************************************************************)
(* Bounds of the model.                                                    *)
(***************************************************************************)
\* the largest number of chunks handed to process_chunks
MaxChunks == 2
\* the largest valid parallel_api_calls value enumerated (valid range 1..100)
MaxParallel == 2

(***************************************************************************)
(* Program constants.                                                      *)
(***************************************************************************)
max_retries == 3
MinParallel == 1
LimitParallel == 100
max_dots == 20

(***************************************************************************)
(* Text: characters, str.lower, str.strip, `in`, str.join.                 *)
(***************************************************************************)
UPPER == <<"A","B","C","D","E","F","G","H","I","J","K","L","M","N","O","P","Q","R","S","T","U","V","W","X","Y","Z">>
LOWER == <<"a","b","c","d","e","f","g","h","i","j","k","l","m","n","o","p","q","r","s","t","u","v","w","x","y","z">>
Whitespace == {" ", "\n", "\t", "\r"}

LowerChar(c) ==
    IF \E i \in 1..Len(UPPER) : UPPER[i] = c
    THEN LOWER[CHOOSE i \in 1..Len(UPPER) : UPPER[i] = c]
    ELSE c

\* str.lower()
Lower(s) == [i \in 1..Len(s) |-> LowerChar(s[i])]

\* `p in s` for strings
Contains(s, p) ==
    \E i \in 1..(Len(s) - Len(p) + 1) : SubSeq(s, i, i + Len(p) - 1) = p

StartsWith(s, prefix) == Len(s) >= Len(prefix) /\ SubSeq(s, 1, Len(prefix)) = prefix

EndsWith(s, suffix) ==
    Len(s) >= Len(suffix) /\ SubSeq(s, Len(s) - Len(suffix) + 1, Len(s)) = suffix

\* s.find(p) counted from 1: where p first starts in s, 0 when it is not there
FirstIndexOf(s, p) ==
    LET hits == {i \in 1..(Len(s) - Len(p) + 1) : SubSeq(s, i, i + Len(p) - 1) = p} IN
    IF hits = {} THEN 0 ELSE CHOOSE i \in hits : \A j \in hits : i <= j

\* s.rfind(p) counted from 1: where p last starts in s, 0 when it is not there
LastIndexOf(s, p) ==
    LET hits == {i \in 1..(Len(s) - Len(p) + 1) : SubSeq(s, i, i + Len(p) - 1) = p} IN
    IF hits = {} THEN 0 ELSE CHOOSE i \in hits : \A j \in hits : j <= i

\* str.strip(): drop leading and trailing whitespace
Strip(s) ==
    LET keep == {i \in 1..Len(s) : s[i] \notin Whitespace}
    IN  IF keep = {} THEN <<>>
        ELSE LET lo == CHOOSE i \in keep : \A j \in keep : i <= j
                 hi == CHOOSE i \in keep : \A j \in keep : j <= i
             IN  SubSeq(s, lo, hi)

RECURSIVE Join(_, _)
\* sep.join(pieces)
Join(sep, pieces) ==
    IF pieces = <<>> THEN <<>>
    ELSE IF Len(pieces) = 1 THEN pieces[1]
    ELSE pieces[1] \o sep \o Join(sep, Tail(pieces))

DIGITS == <<"0","1","2","3","4","5","6","7","8","9">>
DigitValue(c) == (CHOOSE i \in 1..10 : DIGITS[i] = c) - 1

RECURSIVE IntToStr(_)
\* str(n) for n >= 0, as the f-string renders total_seconds
IntToStr(n) ==
    IF n < 10 THEN <<DIGITS[n + 1]>>
    ELSE IntToStr(n \div 10) \o <<DIGITS[(n % 10) + 1]>>

\* s.split(sep) for a separator of one character
RECURSIVE SplitOn(_, _)
SplitOn(s, sep) ==
    LET breaks == {i \in 1..Len(s) : s[i] = sep} IN
    IF breaks = {} THEN <<s>>
    ELSE LET i == CHOOSE b \in breaks : \A c \in breaks : b <= c
         IN  <<SubSeq(s, 1, i - 1)>> \o SplitOn(SubSeq(s, i + 1, Len(s)), sep)

\* int(s) accepts s: decimal digits, at least one
IsInt(s) == s # <<>> /\ \A i \in 1..Len(s) : \E d \in 1..Len(DIGITS) : DIGITS[d] = s[i]

\* int(s)
RECURSIVE StrToInt(_)
StrToInt(s) ==
    IF s = <<>> THEN 0
    ELSE 10 * StrToInt(SubSeq(s, 1, Len(s) - 1)) + DigitValue(s[Len(s)])

(***************************************************************************)
(* Literals of the code.                                                   *)
(***************************************************************************)
PLEASE_PROVIDE == <<"p","l","e","a","s","e"," ","p","r","o","v","i","d","e">>
PLEASE_SHARE == <<"p","l","e","a","s","e"," ","s","h","a","r","e">>
SOURCES_HEADER == <<"\n","\n","S","o","u","r","c","e","s",":","\n">>
BLANK_LINE == <<"\n","\n">>
DASH == <<" ","-"," ">>
AMP_T == <<"&","t","=">>
DOT_SPACE == <<"."," ">>
NEWLINE == <<"\n">>
PERPLEXITY == <<"p","e","r","p","l","e","x","i","t","y">>
\* the grave accent of a code fence, written as a word
BACKTICK == "grave"
THINK_END == <<"<","/","t","h","i","n","k",">">>
FENCE_JSON == <<BACKTICK,BACKTICK,BACKTICK,"j","s","o","n">>
FENCE == <<BACKTICK,BACKTICK,BACKTICK>>

(***************************************************************************)
(* Inputs: the chunks, the replies of the backend, the source URL.         *)
(***************************************************************************)
TS_5s == <<"0","0",":","0","0",":","0","5">>
TS_1h == <<"0","1",":","0","2",":","0","3">>
TextA == <<"a","l","p","h","a">>
TextB == <<"b","e","t","a">>
TextC == <<"g","a","m","m","a">>
TextD == <<"d","e","l","t","a">>
SourceUrl == <<"X">>
\* the endpoint of the dispatcher's runs, which is not Perplexity
UrlOpenAI == <<"h","t","t","p","s",":","/","/","A","P","I",".","O","p","e","n","A","I",".","c","o","m","/","v","1">>

\* the (timestamp, chunk_text) pair at position i of the input list, as
\* extract_and_clean_chunks produces it: odd positions carry a timestamp
ChunkAt(i) ==
    CASE i = 1 -> [timestamp |-> TS_5s, text |-> TextA]
      [] i = 2 -> [timestamp |-> <<>>,  text |-> TextB]
      [] i = 3 -> [timestamp |-> TS_1h, text |-> TextC]
      [] OTHER -> [timestamp |-> <<>>,  text |-> TextD]

ReplyGood == <<"K","e","y"," ","p","o","i","n","t","s",".">>
ReplyAsk == <<" ","P","l","e","a","s","e"," ","P","r","o","v","i","d","e"," ","t","h","e"," ","t","r","a","n","s","c","r","i","p","t",".">>
ReplyShare == <<"P","L","E","A","S","E"," ","S","H","A","R","E"," ","i","t">>
ReplyBlank == <<" ","\n">>
Citation == <<"u",".","i","o">>

\* 200 replies of the backend: the content field and the citations list;
\* asks records that the reply was written with an insufficient-context
\* phrase in it ("Please Provide", "PLEASE SHARE")
Replies ==
    { [content |-> ReplyGood,  citations |-> <<>>,         asks |-> FALSE],
      [content |-> ReplyAsk,   citations |-> <<>>,         asks |-> TRUE],
      [content |-> ReplyShare, citations |-> <<Citation>>, asks |-> TRUE],
      [content |-> ReplyBlank, citations |-> <<>>,         asks |-> FALSE] }

NoReply == [content |-> <<>>, citations |-> <<>>, asks |-> FALSE]

\* what one request can end with: a non-2xx status, a transport exception,
\* or a 200 with one of the replies
Outcomes ==
    {[kind |-> "status", reply |-> NoReply], [kind |-> "exc", reply |-> NoReply]}
        \cup {[kind |-> "ok", reply |-> r] : r \in Replies}

\* the parallel_api_calls values a config can carry: negative, zero, the
\* valid ones up to the bound, and one above the documented limit
ParallelValues == {-1, 0} \cup (MinParallel..MaxParallel) \cup {LimitParallel + 1}

(***************************************************************************)
(* Pure functions of the dispatcher.                                       *)
(***************************************************************************)
\* the three fence tests of parse_response_content, one after the other
\* (api.py 110-115)
StripFences(content) ==
    LET a == IF StartsWith(content, FENCE_JSON)
             THEN Strip(SubSeq(content, Len(FENCE_JSON) + 1, Len(content)))
             ELSE content
        b == IF StartsWith(a, FENCE)
             THEN Strip(SubSeq(a, Len(FENCE) + 1, Len(a)))
             ELSE a
    IN  IF EndsWith(b, FENCE)
        THEN Strip(SubSeq(b, 1, Len(b) - Len(FENCE)))
        ELSE b

\* content after the last "</think>" (api.py 105-108)
AfterThink(content) ==
    LET idx == LastIndexOf(content, THINK_END) IN
    IF idx # 0
    THEN Strip(SubSeq(content, idx + Len(THINK_END), Len(content)))
    ELSE content

\* parse_response_content once the content field has been read: stripped,
\* and for a base URL that holds "perplexity" cut after the reasoning and
\* freed of code fences (api.py 101-117)
parse_response_content(response, base_url) ==
    LET content == Strip(response.content) IN
    IF Contains(Lower(base_url), PERPLEXITY)
    THEN StripFences(AfterThink(content))
    ELSE content

RECURSIVE SourcesLines(_, _)
\* the numbered lines of the "Sources" footer, from index idx on
SourcesLines(citations, idx) ==
    IF idx > Len(citations) THEN <<>>
    ELSE IntToStr(idx) \o DOT_SPACE \o citations[idx] \o NEWLINE
             \o SourcesLines(citations, idx + 1)

\* content plus the citations footer (api.py 195-200)
WithCitations(content, citations) ==
    IF citations # <<>>
    THEN content \o SOURCES_HEADER \o SourcesLines(citations, 1)
    ELSE content

\* the test without `.lower()`
InsufficientContextCaseSensitive(content) ==
    \/ Contains(content, PLEASE_PROVIDE)
    \/ Contains(content, PLEASE_SHARE)

\* the insufficient-context test (api.py 202)
InsufficientContext(content) ==
    \/ Contains(Lower(content), PLEASE_PROVIDE)
    \/ Contains(Lower(content), PLEASE_SHARE)

\* what process_chunk returns for a 200 reply (api.py 191-204)
ReplySummary(reply) ==
    LET content == WithCitations(parse_response_content(reply, UrlOpenAI),
                                 reply.citations)
    IN  IF InsufficientContext(content) THEN <<>> ELSE content

\* a retry budget short by one attempt
RetryAllowedShort(attempt) == attempt < max_retries - 2

\* `attempt < max_retries - 1`: another attempt follows this failed one
RetryAllowed(attempt) == attempt < max_retries - 1

\* a backoff that grows by two seconds per attempt
BackoffLinear(attempt) == 2 * attempt

\* `await asyncio.sleep(2 ** attempt)` (api.py 186 and 213, core.py 385
\* and 410): the seconds to wait after failed attempt number `attempt`
Backoff(attempt) == 2 ^ attempt

\* how process_chunk ends when the last attempt got a non-2xx status:
\* api.py raises APIError and re-raises it (189, 208-209); core.py raises a
\* plain Exception that its own handler turns into "" (388, 407-413)
FinalStatusEnd(im) == IF im = "api" THEN "APIError" ELSE "value"

\* an acquire that never waits
CanAcquireAlways(value) == TRUE

\* asyncio.Semaphore.acquire proceeds only while a slot is free
CanAcquire(value) == value > 0

\* a deep link whose offset counts the hours as minutes
format_youtube_timestamp_HoursAsMinutes(timestamp, url) ==
    LET parts == SplitOn(timestamp, ":") IN
    IF Len(parts) = 3 /\ \A k \in 1..3 : IsInt(parts[k])
    THEN timestamp \o DASH \o url \o AMP_T
            \o IntToStr(StrToInt(parts[1]) * 60 + StrToInt(parts[2]) * 60
                           + StrToInt(parts[3]))
    ELSE timestamp

\* format_youtube_timestamp (api.py 292-299): three integers separated by
\* colons give the deep link; anything else raises inside the try and the
\* timestamp comes back as it is
format_youtube_timestamp(timestamp, url) ==
    LET parts == SplitOn(timestamp, ":") IN
    IF Len(parts) = 3 /\ \A k \in 1..3 : IsInt(parts[k])
    THEN LET total_seconds == StrToInt(parts[1]) * 3600 + StrToInt(parts[2]) * 60
                                + StrToInt(parts[3])
         IN  timestamp \o DASH \o url \o AMP_T \o IntToStr(total_seconds)
    ELSE timestamp

\* one piece of the assembled text (api.py 317-325)
FormatPiece(r, cfg) ==
    IF r.timestamp # <<>>
    THEN (IF cfg.type_of_source = "YouTube Video"
          THEN format_youtube_timestamp(r.timestamp, cfg.source_url_or_path)
          ELSE r.timestamp) \o BLANK_LINE \o r.summary
    ELSE r.summary

\* the list formatted_pieces, in the order of summaries
FormattedPieces(summaries, cfg) ==
    [k \in 1..Len(summaries) |-> FormatPiece(summaries[k], cfg)]

format_summary_with_timestamps(summaries, cfg) ==
    Join(BLANK_LINE, FormattedPieces(summaries, cfg))

(***************************************************************************)
(* State.                                                                  *)
(***************************************************************************)
VARIABLES
    impl,           \* "api": summarizer/api.py; "core": the copy in core.py
    config,         \* the configuration dictionary of the run
    chunks,         \* the (timestamp, chunk_text) pairs given to process_chunks
    semaphore,      \* [built, value]: the asyncio.Semaphore of process_chunks
    tasks,          \* position -> the chunk task created for that chunk
    completed,      \* completed[0] of api.process_chunks
    progress,       \* [current, dots_shown] of the progress object
    overtaken,      \* some task ended while a task of an earlier chunk had not
    dispatch,       \* [pc, valid_results]: where process_chunks stands
    mainState       \* [pc, outcome, text]: where core.main stands

dvars == <<impl, config, chunks, semaphore, tasks, completed, progress,
           overtaken, dispatch, mainState>>

\* asked: the task ended on a 200 reply that held an insufficient-context phrase
\* failure: the failure of the last attempt that ended the task ("status",
\* "exc"), "none" when the task did not end that way
NoResult == [kind |-> "none", timestamp |-> <<>>, summary |-> <<>>, asked |-> FALSE,
             failure |-> "none"]

\* a chunk position for which no task exists (blank chunk, or none created yet)
\* only_non2xx: every request of the task answered so far got a non-2xx status
\* slept: the seconds of backoff the task has asked asyncio.sleep for
NoTask == [pc |-> "absent", attempt |-> 0, requests |-> 0, only_non2xx |-> TRUE,
           cancel |-> FALSE, held |-> FALSE, slept |-> 0, result |-> NoResult]

Positions == 1..Len(chunks)
Submitted == {i \in Positions : tasks[i].pc # "absent"}
Pending == {i \in Submitted : tasks[i].pc # "done"}

\* the requests in flight: issued and not yet answered
InFlight == {i \in Submitted : tasks[i].pc = "post"}

DInit ==
    /\ impl \in {"api", "core"}
    /\ config \in [parallel_api_calls : ParallelValues,
                   type_of_source : {"YouTube Video"},
                   source_url_or_path : {SourceUrl},
                   required_present : BOOLEAN]
    /\ \E n \in 1..MaxChunks : \E blank \in 0..n :
          chunks = [i \in 1..n |->
                      IF i = blank THEN [timestamp |-> <<>>, text |-> <<>>]
                      ELSE ChunkAt(i)]
    /\ semaphore = [built |-> FALSE, value |-> 0]
    /\ tasks = [i \in Positions |-> NoTask]
    /\ completed = 0
    /\ progress = [current |-> 0, dots_shown |-> 0]
    /\ overtaken = FALSE
    /\ dispatch = [pc |-> "entry", valid_results |-> <<>>]
    /\ mainState = [pc |-> "running", outcome |-> "none", text |-> <<>>]

(***************************************************************************)
(* process_chunks, up to the gather (api.py 237-270, core.py 443-461).     *)
(***************************************************************************)
\* asyncio.Semaphore(value) raises ValueError for a negative value
SemaphoreRejects(value) == value < 0

\* the chunks that get a task: those whose text is not blank (api.py 261)
HasTask(chunk) == Strip(chunk.text) # <<>>

StartDispatch ==
    /\ mainState.pc = "running"
    /\ dispatch.pc = "entry"
    /\ IF SemaphoreRejects(config.parallel_api_calls)
       THEN /\ dispatch' = [dispatch EXCEPT !.pc = "raised_ValueError"]
            /\ UNCHANGED <<semaphore, tasks>>
       ELSE /\ semaphore' = [built |-> TRUE, value |-> config.parallel_api_calls]
            /\ tasks' = [i \in Positions |->
                           IF HasTask(chunks[i])
                           THEN [NoTask EXCEPT !.pc = "semwait"]
                           ELSE NoTask]
            /\ dispatch' = [dispatch EXCEPT !.pc =
                              IF \E i \in Positions : HasTask(chunks[i])
                              THEN "gather" ELSE "raised_NoChunks"]
    /\ UNCHANGED <<impl, config, chunks, completed, progress, overtaken, mainState>>

(***************************************************************************)
(* A chunk task: process_with_semaphore around process_chunk               *)
(* (api.py 248-257 and 171-218, core.py 446-450 and 372-413).              *)
(* pc: "semwait"      waiting in `async with semaphore`                    *)
(*     "post"         a request is in flight (session.post ... json)       *)
(*     "sleep_status" asyncio.sleep after a non-2xx answer (api.py 186)    *)
(*     "sleep_exc"    asyncio.sleep in the `except Exception` handler (213)*)
(*     "done"         the task has ended                                   *)
(***************************************************************************)
Max(a, b) == IF a >= b THEN a ELSE b

\* SimpleProgress.update(current) / ProgressBar.update(current)
ProgressUpdate(prog, current, total) ==
    [current |-> current,
     dots_shown |-> Max(prog.dots_shown, (current * max_dots) \div total)]

\* does the end of process_chunk reach `completed[0] += 1` (api.py 252)?
\* only a returned value does; an exception leaves the `async with` body
ReachesCounter(kind) == kind = "value"

\* a release that gives the slot back twice
ReleaseTwice(held, value) == IF held THEN value + 2 ELSE value

\* leaving `async with semaphore` (api.py 250, core.py 447): the slot the
\* task holds goes back, on a return and on an exception alike; a task
\* that was cancelled while waiting for a slot holds none
Release(held, value) == IF held THEN value + 1 ELSE value

\* the task at position i ends: kind "value" (process_chunk returned
\* summary), "APIError" or "cancelled" (the exception left the task);
\* status tells that a non-2xx answer ended it
TaskEnds(i, kind, summary, status, asked, failure) ==
    /\ tasks' = [tasks EXCEPT ![i] =
                   [pc |-> "done", attempt |-> @.attempt,
                    requests |-> @.requests,
                    only_non2xx |-> @.only_non2xx /\ status,
                    cancel |-> @.cancel, held |-> FALSE,
                    slept |-> @.slept,
                    result |-> [kind |-> kind,
                                timestamp |-> IF kind = "value"
                                              THEN chunks[i].timestamp ELSE <<>>,
                                summary |-> summary,
                                asked |-> asked,
                                failure |-> failure]]]
    /\ semaphore' = [semaphore EXCEPT !.value = Release(tasks[i].held, @)]
    /\ IF impl = "api" /\ ReachesCounter(kind)
       THEN /\ completed' = completed + 1
            /\ progress' = ProgressUpdate(progress, completed + 1, Len(chunks))
       ELSE UNCHANGED <<completed, progress>>
    /\ overtaken' = (overtaken \/ \E j \in Pending : j < i)

TasksRun == dispatch.pc \in {"gather", "cancelled"}

\* `for key in required_keys: if key not in config: raise ...` (api.py
\* 141-144, core.py 344-347): api_key, model, base_url and max_output_tokens
\* must all be in the config
RequiredKeysPresent(cfg) == cfg.required_present

\* the task gets a slot and calls process_chunk, which issues its first
\* request, or raises ConfigurationError (ValueError in core.py) before any
\* request when a required key is missing; the exception leaves the
\* `async with`, which gives the slot back
Acquire(i) ==
    /\ TasksRun
    /\ tasks[i].pc = "semwait"
    /\ ~tasks[i].cancel
    /\ CanAcquire(semaphore.value)
    /\ IF RequiredKeysPresent(config)
       THEN /\ semaphore' = [semaphore EXCEPT !.value = @ - 1]
            /\ tasks' = [tasks EXCEPT ![i].pc = "post", ![i].held = TRUE,
                                      ![i].requests = @ + 1]
            /\ UNCHANGED <<completed, progress, overtaken>>
       ELSE TaskEnds(i, "ConfigurationError", <<>>, FALSE, FALSE, "none")
    /\ UNCHANGED <<impl, config, chunks, dispatch, mainState>>

\* the request in flight is answered
Respond(i, o) ==
    /\ TasksRun
    /\ tasks[i].pc = "post"
    /\ ~tasks[i].cancel
    /\ CASE o.kind = "ok" ->
               TaskEnds(i, "value", ReplySummary(o.reply), FALSE, o.reply.asks, "none")
          [] o.kind = "status" /\ RetryAllowed(tasks[i].attempt) ->
               /\ tasks' = [tasks EXCEPT ![i].pc = "sleep_status",
                                         ![i].slept = @ + Backoff(tasks[i].attempt)]
               /\ UNCHANGED <<semaphore, completed, progress, overtaken>>
          [] o.kind = "status" /\ ~RetryAllowed(tasks[i].attempt) ->
               TaskEnds(i, FinalStatusEnd(impl), <<>>, TRUE, FALSE, o.kind)
          [] o.kind = "exc" /\ RetryAllowed(tasks[i].attempt) ->
               /\ tasks' = [tasks EXCEPT ![i].pc = "sleep_exc",
                                         ![i].only_non2xx = FALSE,
                                         ![i].slept = @ + Backoff(tasks[i].attempt)]
               /\ UNCHANGED <<semaphore, completed, progress, overtaken>>
          [] o.kind = "exc" /\ ~RetryAllowed(tasks[i].attempt) ->
               TaskEnds(i, "value", <<>>, FALSE, FALSE, o.kind)
    /\ UNCHANGED <<impl, config, chunks, dispatch, mainState>>

\* `for attempt in range(max_retries)`: is there an attempt after this one?
LoopContinues(attempt) == attempt + 1 < max_retries

\* the backoff sleep is over: the next attempt issues its request; were the
\* loop exhausted, process_chunk would return "" (api.py 218)
Wake(i) ==
    /\ TasksRun
    /\ tasks[i].pc \in {"sleep_status", "sleep_exc"}
    /\ ~tasks[i].cancel
    /\ IF LoopContinues(tasks[i].attempt)
       THEN /\ tasks' = [tasks EXCEPT ![i].pc = "post", ![i].attempt = @ + 1,
                                      ![i].requests = @ + 1]
            /\ UNCHANGED <<semaphore, completed, progress, overtaken>>
       ELSE TaskEnds(i, "value", <<>>, tasks[i].only_non2xx, FALSE, "none")
    /\ UNCHANGED <<impl, config, chunks, dispatch, mainState>>

\* how a task ends when CancelledError is thrown in at suspension point pc:
\* inside the try of process_chunk it is caught and "" returned (206-207);
\* in `async with semaphore` and in the sleep of the except handler (213)
\* nothing catches it
CancelEnd(pc) == IF pc \in {"post", "sleep_status"} THEN "value" ELSE "cancelled"

Cancelled(i) ==
    /\ TasksRun
    /\ tasks[i].pc \in {"semwait", "post", "sleep_status", "sleep_exc"}
    /\ tasks[i].cancel
    /\ TaskEnds(i, CancelEnd(tasks[i].pc), <<>>, tasks[i].only_non2xx, FALSE, "none")
    /\ UNCHANGED <<impl, config, chunks, dispatch, mainState>>

(***************************************************************************)
(* The gather and what follows it (api.py 268-289, core.py 460-471), and   *)
(* core.main around the dispatch (core.py 531-548).                        *)
(***************************************************************************)
\* a task list built by inserting each new task at the front
GatherOrderReversed ==
    LET IsSubmitted(i) == i \in Submitted
        up == SelectSeq([i \in Positions |-> i], IsSubmitted)
    IN  [k \in 1..Len(up) |-> up[Len(up) + 1 - k]]

\* the order of the list `tasks`, which asyncio.gather keeps for its
\* results: the positions of the submitted chunks, ascending
GatherOrder ==
    LET IsSubmitted(i) == i \in Submitted
    IN  SelectSeq([i \in Positions |-> i], IsSubmitted)

\* `isinstance(result, Exception)`: the result is logged and dropped
IsException(result) == result.kind \in {"APIError", "ConfigurationError"}

\* `result[1] and result[1].strip()`: the result is kept
IsValid(result) ==
    /\ ~IsException(result)
    /\ result.summary # <<>>
    /\ Strip(result.summary) # <<>>

\* valid_results: the kept results, each with the position it came from
ValidResults ==
    LET order == GatherOrder
        results == [k \in 1..Len(order) |->
                      [position |-> order[k],
                       timestamp |-> tasks[order[k]].result.timestamp,
                       summary |-> tasks[order[k]].result.summary,
                       kind |-> tasks[order[k]].result.kind]]
        Kept(r) == IsValid(r)
    IN  SelectSeq(results, Kept)

\* a gather without return_exceptions: the first exception leaves the await
GatherRaisesTaskException ==
    \E i \in Submitted : tasks[i].result.kind \in {"APIError", "ConfigurationError"}

\* gather(*tasks, return_exceptions=True) hands a task's exception back as
\* that task's result: the await itself never raises one
GatherRaises == FALSE

\* all tasks have ended: gather returns and process_chunks builds its list;
\* an exception out of the try block would make it return [] (284-289)
Collect ==
    /\ mainState.pc = "running"
    /\ dispatch.pc = "gather"
    /\ Pending = {}
    /\ dispatch' = [pc |-> "returned",
                    valid_results |-> IF GatherRaises THEN <<>> ELSE ValidResults]
    /\ UNCHANGED <<impl, config, chunks, semaphore, tasks, completed, progress,
                   overtaken, mainState>>

\* `if not summaries: raise Exception("No valid summaries generated")`
NoSummaries(summaries) == summaries = <<>>

\* run_until_complete(process_chunks(...)) is over: main returns the
\* assembled text or raises Exception("Processing failed: ...")
MainFinish ==
    /\ mainState.pc = "running"
    /\ dispatch.pc \in {"returned", "raised_ValueError", "raised_NoChunks"}
    /\ mainState' =
         IF dispatch.pc # "returned"
         THEN [pc |-> "done", outcome |-> dispatch.pc, text |-> <<>>]
         ELSE IF NoSummaries(dispatch.valid_results)
         THEN [pc |-> "done", outcome |-> "raised_NoValidSummaries", text |-> <<>>]
         ELSE [pc |-> "done", outcome |-> "returned",
               text |-> format_summary_with_timestamps(dispatch.valid_results, config)]
    /\ UNCHANGED <<impl, config, chunks, semaphore, tasks, completed, progress,
                   overtaken, dispatch>>

\* the run is cancelled from outside while the loop waits in the gather
\* (KeyboardInterrupt out of run_until_complete): main's finally block
\* cancels every pending task, process_chunks itself included (541-543)
Interrupt ==
    /\ mainState.pc = "running"
    /\ dispatch.pc = "gather"
    /\ mainState' = [mainState EXCEPT !.pc = "cancelling"]
    /\ dispatch' = [dispatch EXCEPT !.pc = "cancelled"]
    /\ tasks' = [i \in Positions |->
                   IF i \in Pending THEN [tasks[i] EXCEPT !.cancel = TRUE]
                   ELSE tasks[i]]
    /\ UNCHANGED <<impl, config, chunks, semaphore, completed, progress, overtaken>>

\* run_until_complete(gather(*pending, return_exceptions=True)) is over
\* (544-545): the interrupt leaves main
MainCleanup ==
    /\ mainState.pc = "cancelling"
    /\ Pending = {}
    /\ mainState' = [pc |-> "done", outcome |-> "interrupted", text |-> <<>>]
    /\ UNCHANGED <<impl, config, chunks, semaphore, tasks, completed, progress,
                   overtaken, dispatch>>

(***************************************************************************)
(* Acquisition: transcription.get_transcript with handlers.py and the      *)
(* downloaders.  Two runs of it execute in one process, on one temporary   *)
(* directory; a step is one blocking call (a download, an ffmpeg run, a    *)
(* transcription) together with the file removals that follow it.          *)
(***************************************************************************)
VARIABLES
    runs,       \* run -> [source, pc, strategy, temp_path, temp_wav, audio_path, outcome]
    files,      \* the temporary files that exist in the temporary directory
    next_uuid,  \* the next value uuid.uuid4() hands out: never one given before
    created,    \* run -> the temporary paths the run has written
    touched,    \* run -> the temporary paths the run has written, read or removed
    invoked,    \* run -> the components the run has called: "captions",
                \* "download", "transcoder", "transcription"
    deleted,    \* run -> the temporary paths the run has removed
    misuse      \* run -> what went wrong with a removed path: "twice" (the
                \* run removed a path it had removed before), "own" (it
                \* gave a component a path it had removed), "other" (it gave
                \* a component a path another run had removed and that does
                \* not exist)

avars == <<runs, files, next_uuid, created, touched, invoked, deleted, misuse>>

Runs == {"A", "B"}

NoPath == [name |-> "", uid |-> 0]
\* os.path.join(temp_dir, name): a fixed name, or one carrying a uuid
FixedPath(name) == [name |-> name, uid |-> 0]
UuidPath(name, uid) == [name |-> name, uid |-> uid]

\* what a caller can ask for: the source type, what the locator looks like
\* ("youtube": matches YOUTUBE_URL_REGEX, "http": another http(s) URL,
\* "path": no URL) and whether captions are wanted
Sources ==
    [type_of_source : {"YouTube Video"}, locator : {"youtube", "http", "path"},
     use_youtube_captions : BOOLEAN]
    \cup [type_of_source : {"Video URL"}, locator : {"youtube", "http", "path"},
          use_youtube_captions : {TRUE}]
    \cup [type_of_source : {"Local File", "Google Drive Video Link"},
          locator : {"path"}, use_youtube_captions : {TRUE}]
    \cup [type_of_source : {"Dropbox Video Link"}, locator : {"http"},
          use_youtube_captions : {TRUE}]

\* is_youtube_url (youtube.py 20-21)
is_youtube_url(locator) == locator = "youtube"

\* CobaltDownloader.supports: the scheme is http or https (cobalt.py 21-23)
CobaltSupports(locator) == locator \in {"youtube", "http"}

\* a manager whose list has the relay first
DownloadStrategyRelayFirst(locator) ==
    IF CobaltSupports(locator) THEN "cobalt"
    ELSE IF is_youtube_url(locator) THEN "youtube"
    ELSE "unsupported"

\* DownloadManager.download_audio: the first downloader of
\* [YouTubeDownloader, CobaltDownloader] that supports the URL (manager.py 27-32)
DownloadStrategy(locator) ==
    IF is_youtube_url(locator) THEN "youtube"
    ELSE IF CobaltSupports(locator) THEN "cobalt"
    ELSE "unsupported"

\* the branch get_transcript takes (transcription.py 249-289)
Strategy(source) ==
    CASE source.type_of_source = "YouTube Video" ->
           IF is_youtube_url(source.locator) /\ source.use_youtube_captions
           THEN "captions" ELSE DownloadStrategy(source.locator)
      [] source.type_of_source = "Video URL" -> DownloadStrategy(source.locator)
      [] source.type_of_source = "Local File" -> "local"
      [] source.type_of_source = "Google Drive Video Link" -> "gdrive"
      [] source.type_of_source = "Dropbox Video Link" -> "dropbox"

\* the file names each strategy works on
DownloadPath(strategy, uid) ==
    CASE strategy = "youtube" -> UuidPath("yt_audio.mp4", uid)
      [] strategy = "cobalt" -> UuidPath("cobalt_audio.bin", uid)
      [] strategy = "dropbox" -> FixedPath("dropbox_video.mp4")
      [] OTHER -> NoPath

WavPath(strategy) ==
    CASE strategy = "local" -> FixedPath("local_audio.wav")
      [] strategy = "gdrive" -> FixedPath("gdrive_audio.wav")
      [] strategy = "dropbox" -> FixedPath("dropbox_audio.wav")
      [] OTHER -> NoPath

ProcessedPath(strategy, uid) ==
    CASE strategy = "youtube" -> UuidPath("yt_audio.mp3", uid)
      [] strategy = "cobalt" -> UuidPath("cobalt_audio.mp3", uid)
      [] strategy = "local" -> FixedPath("local_processed.mp3")
      [] strategy = "gdrive" -> FixedPath("gdrive_processed.mp3")
      [] strategy = "dropbox" -> FixedPath("dropbox_processed.mp3")
      [] OTHER -> NoPath

IsDownloader(strategy) == strategy \in {"youtube", "cobalt"}

AInit ==
    /\ runs \in [Runs -> {[source |-> src, pc |-> "start", strategy |-> "none",
                           temp_path |-> NoPath, temp_wav |-> NoPath,
                           audio_path |-> NoPath, outcome |-> "none"]
                          : src \in Sources}]
    /\ files = {}
    /\ next_uuid = 1
    /\ created = [r \in Runs |-> {}]
    /\ touched = [r \in Runs |-> {}]
    /\ invoked = [r \in Runs |-> {}]
    /\ deleted = [r \in Runs |-> {}]
    /\ misuse = [r \in Runs |-> {}]

\* the run ends: get_transcript returns ("returned") or raises the error
Ends(r, outcome) == runs' = [runs EXCEPT ![r].pc = "ended", ![r].outcome = outcome]

Touch(r, paths) == touched' = [touched EXCEPT ![r] = @ \cup (paths \ {NoPath})]
Create(r, paths) == created' = [created EXCEPT ![r] = @ \cup (paths \ {NoPath})]
Invoke(r, component) == invoked' = [invoked EXCEPT ![r] = @ \cup {component}]

\* run r hands the paths `inputs` to a component (ffmpeg, the transcription
\* backend) and then removes those of `removes` that are among the files
\* `present`: os.remove, behind os.path.exists where the code has it
Track(r, inputs, removes, present) ==
    LET gone == (removes \ {NoPath}) \cap present
        used == inputs \ {NoPath}
    IN  /\ deleted' = [deleted EXCEPT ![r] = @ \cup gone]
        /\ misuse' = [misuse EXCEPT ![r] =
              @ \cup (IF gone \cap deleted[r] # {} THEN {"twice"} ELSE {})
                \cup (IF used \cap deleted[r] # {} THEN {"own"} ELSE {})
                \cup (IF \E o \in Runs \ {r} : (used \cap deleted[o]) \ files # {}
                      THEN {"other"} ELSE {})]

\* what a downloader or a handler removes after process_audio_file
\* succeeded: os.remove(temp_path) (youtube.py 63, cobalt.py 91),
\* cleanup(temp_video) and cleanup(temp_wav) (handlers.py 72, 97, 115-116)
CleanupOnSuccess(run) == {run.temp_path, run.temp_wav}

\* a caption failure that is retried as a YouTube download
CaptionFailureFallsBack(run) ==
    [run EXCEPT !.pc = "download", !.strategy = "youtube",
                !.temp_path = DownloadPath("youtube", next_uuid),
                !.audio_path = ProcessedPath("youtube", next_uuid)]

\* get_youtube_transcript failed (transcription.py 94-98): TranscriptError
\* leaves get_transcript, whose caption branch has no handler (251-254)
CaptionFailure(run) == [run EXCEPT !.pc = "ended", !.outcome = "TranscriptError"]

\* get_transcript up to its first blocking call (transcription.py 240-269):
\* the branch is chosen, a handler checks its source (handlers.py 65-66,
\* 81-91), a YouTube download names its files (youtube.py 43-47)
AcqStart(r) ==
    LET st == Strategy(runs[r].source) IN
    /\ runs[r].pc = "start"
    /\ UNCHANGED <<files, created, touched, invoked, deleted, misuse>>
    /\ CASE st = "captions" ->
              /\ runs' = [runs EXCEPT ![r].pc = "captions", ![r].strategy = st]
              /\ UNCHANGED next_uuid
         [] st = "unsupported" ->
              /\ runs' = [runs EXCEPT ![r].pc = "ended", ![r].strategy = st,
                                      ![r].outcome = "UnsupportedSourceError"]
              /\ UNCHANGED next_uuid
         [] st = "cobalt" ->
              /\ runs' = [runs EXCEPT ![r].pc = "resolve", ![r].strategy = st]
              /\ UNCHANGED next_uuid
         [] st = "youtube" ->
              /\ runs' = [runs EXCEPT ![r].pc = "download", ![r].strategy = st,
                              ![r].temp_path = DownloadPath(st, next_uuid),
                              ![r].audio_path = ProcessedPath(st, next_uuid)]
              /\ next_uuid' = next_uuid + 1
         [] st = "dropbox" ->
              /\ runs' = [runs EXCEPT ![r].pc = "download", ![r].strategy = st,
                              ![r].temp_path = DownloadPath(st, 0),
                              ![r].temp_wav = WavPath(st),
                              ![r].audio_path = ProcessedPath(st, 0)]
              /\ UNCHANGED next_uuid
         [] st \in {"local", "gdrive"} ->
              /\ UNCHANGED next_uuid
              /\ \E colab \in BOOLEAN, present \in BOOLEAN :
                    IF st = "gdrive" /\ ~colab
                    THEN runs' = [runs EXCEPT ![r].pc = "ended", ![r].strategy = st,
                                              ![r].outcome = "ImportError"]
                    ELSE IF ~present
                    THEN runs' = [runs EXCEPT ![r].pc = "ended", ![r].strategy = st,
                                              ![r].outcome = "SourceNotFoundError"]
                    ELSE runs' = [runs EXCEPT ![r].pc = "to_wav", ![r].strategy = st,
                                              ![r].temp_wav = WavPath(st),
                                              ![r].audio_path = ProcessedPath(st, 0)]

\* the caption track: extract_youtube_id and get_youtube_transcript
\* (transcription.py 251-254); no file is involved
FetchCaptions(r, ok) ==
    /\ runs[r].pc = "captions"
    /\ Invoke(r, "captions")
    /\ IF ok THEN Ends(r, "returned")
       ELSE runs' = [runs EXCEPT ![r] = CaptionFailure(runs[r])]
    /\ UNCHANGED <<files, next_uuid, created, touched, deleted, misuse>>

\* CobaltDownloader._resolve_download_url, then the file names (cobalt.py 68-72)
Resolve(r, ok) ==
    /\ runs[r].pc = "resolve"
    /\ Invoke(r, "download")
    /\ UNCHANGED <<files, created, touched, deleted, misuse>>
    /\ IF ok
       THEN /\ runs' = [runs EXCEPT ![r].pc = "download",
                            ![r].temp_path = DownloadPath("cobalt", next_uuid),
                            ![r].audio_path = ProcessedPath("cobalt", next_uuid)]
            /\ next_uuid' = next_uuid + 1
       ELSE /\ Ends(r, "TranscriptError")
            /\ UNCHANGED next_uuid

\* the download: stream.download (youtube.py 52-54), requests.get into
\* temp_path (cobalt.py 77-82), wget.download (handlers.py 109).  A download
\* that fails has written part of the file (partial) or nothing.  The
\* downloaders remove what is there (youtube.py 69-75, cobalt.py 93-99);
\* DropboxHandler has no handler around the call.
Download(r, ok, partial) ==
    LET run == runs[r] IN
    /\ run.pc = "download"
    /\ Invoke(r, "download")
    /\ UNCHANGED next_uuid
    /\ IF ok
       THEN /\ files' = files \cup {run.temp_path}
            /\ Create(r, {run.temp_path})
            /\ Touch(r, {run.temp_path})
            /\ Track(r, {}, {}, files)
            /\ runs' = [runs EXCEPT ![r].pc =
                           IF IsDownloader(run.strategy) THEN "compress" ELSE "to_wav"]
       ELSE /\ Create(r, IF partial THEN {run.temp_path} ELSE {})
            /\ IF IsDownloader(run.strategy)
               THEN /\ files' = files \ {run.temp_path, run.audio_path}
                    /\ Touch(r, {run.temp_path, run.audio_path})
                    /\ Track(r, {}, {run.temp_path, run.audio_path},
                             files \cup (IF partial THEN {run.temp_path} ELSE {}))
                    /\ Ends(r, "AudioProcessingError")
               ELSE /\ files' = files \cup (IF partial THEN {run.temp_path} ELSE {})
                    /\ Touch(r, IF partial THEN {run.temp_path} ELSE {})
                    /\ Track(r, {}, {}, files)
                    /\ Ends(r, "DownloadError")

\* convert_to_wav (handlers.py 31-43) as the handlers call it (69, 94, 112):
\* ffmpeg reads the source, or temp_video for Dropbox, and writes temp_wav.
\* It cannot succeed on an input that is not there; when it fails it has
\* written part of the output (partial) or nothing, and the handler does
\* nothing about it.
ToWav(r, ok, partial) ==
    LET run == runs[r]
        readable == run.strategy = "dropbox" => run.temp_path \in files
    IN
    /\ run.pc = "to_wav"
    /\ ok => readable
    /\ Invoke(r, "transcoder")
    /\ Track(r, {run.temp_path}, {}, files)
    /\ UNCHANGED next_uuid
    /\ IF ok
       THEN /\ files' = files \cup {run.temp_wav}
            /\ Create(r, {run.temp_wav})
            /\ Touch(r, {run.temp_path, run.temp_wav})
            /\ runs' = [runs EXCEPT ![r].pc = "compress"]
       ELSE /\ files' = files \cup (IF partial THEN {run.temp_wav} ELSE {})
            /\ Create(r, IF partial THEN {run.temp_wav} ELSE {})
            /\ Touch(r, {run.temp_path} \cup (IF partial THEN {run.temp_wav} ELSE {}))
            /\ Ends(r, "AudioProcessingError")

\* process_audio_file (handlers.py 46-58) and what follows it: the handlers
\* clean up temp_video and temp_wav on success only (72, 97, 115-116); the
\* downloaders remove temp_path on success (youtube.py 63, cobalt.py 91) and
\* temp_path and processed_path on failure (youtube.py 69-75, cobalt.py 93-99)
Compress(r, ok, partial) ==
    LET run == runs[r]
        input == IF IsDownloader(run.strategy) THEN run.temp_path ELSE run.temp_wav
    IN
    /\ run.pc = "compress"
    /\ ok => input \in files
    /\ Invoke(r, "transcoder")
    /\ UNCHANGED next_uuid
    /\ IF ok
       THEN /\ files' = (files \cup {run.audio_path}) \ CleanupOnSuccess(run)
            /\ Create(r, {run.audio_path})
            /\ Touch(r, {run.temp_path, run.temp_wav, run.audio_path})
            /\ Track(r, {input}, CleanupOnSuccess(run), files \cup {run.audio_path})
            /\ runs' = [runs EXCEPT ![r].pc = "transcribe"]
       ELSE /\ Create(r, IF partial THEN {run.audio_path} ELSE {})
            /\ Ends(r, "AudioProcessingError")
            /\ IF IsDownloader(run.strategy)
               THEN /\ files' = files \ {run.temp_path, run.audio_path}
                    /\ Touch(r, {run.temp_path, run.audio_path})
                    /\ Track(r, {input}, {run.temp_path, run.audio_path},
                             files \cup (IF partial THEN {run.audio_path} ELSE {}))
               ELSE /\ files' = files \cup (IF partial THEN {run.audio_path} ELSE {})
                    /\ Touch(r, {input} \cup (IF partial THEN {run.audio_path} ELSE {}))
                    /\ Track(r, {input}, {}, files)

\* transcribe_audio and the finally clause that removes audio_path if it
\* exists (transcription.py 260-265, 270-275, 282-287); the backend cannot
\* succeed on a file that is not there
Transcribe(r, ok) ==
    LET run == runs[r] IN
    /\ run.pc = "transcribe"
    /\ ok => run.audio_path \in files
    /\ Invoke(r, "transcription")
    /\ files' = files \ {run.audio_path}
    /\ Touch(r, {run.audio_path})
    /\ Track(r, {run.audio_path}, {run.audio_path}, files)
    /\ Ends(r, IF ok THEN "returned" ELSE "TranscriptError")
    /\ UNCHANGED <<next_uuid, created>>

(***************************************************************************)
(* The Segmenter: chunk_text and extract_and_clean_chunks (api.py 13-87).  *)
(* A text is a sequence of characters; FILLER stands for a run of          *)
(* FillerLen letters that is never cut, so that paragraphs reach the       *)
(* minimum chunk size.                                                     *)
(***************************************************************************)
FillerLen == 500
FILLER == "~"

\* `if chunk_size < 1000: chunk_size = 1000`
MIN_CHUNK_SIZE == 1000

\* len(s)
RECURSIVE TextLen(_)
TextLen(s) ==
    IF s = <<>> THEN 0
    ELSE (IF Head(s) = FILLER THEN FillerLen ELSE 1) + TextLen(Tail(s))

\* s.split('\n')
SplitLines(s) == SplitOn(s, "\n")

\* the first loop of chunk_text (api.py 33-44): paragraphs are gathered
\* until the next one would pass chunk_size
RECURSIVE GatherParagraphs(_, _, _, _, _)
GatherParagraphs(paragraphs, pieces, current_chunk, current_size, chunk_size) ==
    IF paragraphs = <<>>
    THEN IF current_chunk # <<>>
         THEN Append(pieces, Join(NEWLINE, current_chunk)) ELSE pieces
    ELSE LET para == Head(paragraphs)
             para_size == TextLen(para) + 1
         IN  IF current_size + para_size > chunk_size /\ current_chunk # <<>>
             THEN GatherParagraphs(Tail(paragraphs),
                                   Append(pieces, Join(NEWLINE, current_chunk)),
                                   <<para>>, para_size, chunk_size)
             ELSE GatherParagraphs(Tail(paragraphs), pieces,
                                   Append(current_chunk, para),
                                   current_size + para_size, chunk_size)

\* a second loop that puts all chunks into one
MergeSmallAll(pieces, merged_chunks, temp_chunk, temp_size, chunk_size) ==
    IF pieces = <<>> THEN <<>> ELSE <<Join(NEWLINE, pieces)>>

\* a second loop that merges while the sum stays below twice the chunk size
RECURSIVE MergeSmallDouble(_, _, _, _, _)
MergeSmallDouble(pieces, merged_chunks, temp_chunk, temp_size, chunk_size) ==
    IF pieces = <<>>
    THEN IF temp_chunk # <<>>
         THEN Append(merged_chunks, Join(NEWLINE, temp_chunk)) ELSE merged_chunks
    ELSE LET chunk == Head(pieces) IN
         IF temp_size + TextLen(chunk) < 2 * chunk_size
         THEN MergeSmallDouble(Tail(pieces), merged_chunks, Append(temp_chunk, chunk),
                               temp_size + TextLen(chunk), chunk_size)
         ELSE MergeSmallDouble(Tail(pieces),
                               IF temp_chunk # <<>>
                               THEN Append(merged_chunks, Join(NEWLINE, temp_chunk))
                               ELSE merged_chunks,
                               <<chunk>>, TextLen(chunk), chunk_size)

\* the second loop (api.py 51-62): chunks are merged while the sum of their
\* lengths stays below chunk_size/2, a true division
RECURSIVE MergeSmall(_, _, _, _, _)
MergeSmall(pieces, merged_chunks, temp_chunk, temp_size, chunk_size) ==
    IF pieces = <<>>
    THEN IF temp_chunk # <<>>
         THEN Append(merged_chunks, Join(NEWLINE, temp_chunk)) ELSE merged_chunks
    ELSE LET chunk == Head(pieces) IN
         IF 2 * (temp_size + TextLen(chunk)) < chunk_size
         THEN MergeSmall(Tail(pieces), merged_chunks, Append(temp_chunk, chunk),
                         temp_size + TextLen(chunk), chunk_size)
         ELSE MergeSmall(Tail(pieces),
                         IF temp_chunk # <<>>
                         THEN Append(merged_chunks, Join(NEWLINE, temp_chunk))
                         ELSE merged_chunks,
                         <<chunk>>, TextLen(chunk), chunk_size)

\* a split that makes every line a chunk
chunk_text_PerLine(text, chunk_size) == SplitLines(text)

chunk_text(text, chunk_size) ==
    LET size == IF chunk_size < MIN_CHUNK_SIZE THEN MIN_CHUNK_SIZE ELSE chunk_size
        pieces == GatherParagraphs(SplitLines(text), <<>>, <<>>, 0, size)
    IN  MergeSmall(pieces, <<>>, <<>>, 0, size)

IsDigit(c) == \E d \in 1..Len(DIGITS) : DIGITS[d] = c

\* the pattern (\d{2}:\d{2}:\d{2}) matches at position i
TimestampAt(s, i) ==
    /\ i + 7 <= Len(s)
    /\ \A k \in {0, 1, 3, 4, 6, 7} : IsDigit(s[i + k])
    /\ \A k \in {2, 5} : s[i + k] = ":"

\* a search that keeps the last match of the pattern
LastTimestamp(chunk) ==
    LET hits == {i \in 1..Len(chunk) : TimestampAt(chunk, i)} IN
    IF hits = {} THEN <<>>
    ELSE LET i == CHOOSE h \in hits : \A g \in hits : g <= h
         IN  SubSeq(chunk, i, i + 7)

\* timestamp_pattern.search(chunk): group 1 of the leftmost match, or ""
FirstTimestamp(chunk) ==
    LET hits == {i \in 1..Len(chunk) : TimestampAt(chunk, i)} IN
    IF hits = {} THEN <<>>
    ELSE LET i == CHOOSE h \in hits : \A g \in hits : h <= g
         IN  SubSeq(chunk, i, i + 7)

extract_and_clean_chunks(text, chunk_size) ==
    LET pieces == chunk_text(text, chunk_size) IN
    [k \in 1..Len(pieces) |->
        [timestamp |-> FirstTimestamp(pieces[k]), text |-> Strip(pieces[k])]]

\* paragraphs the transcripts are made of: empty, a word, a padded word,
\* half and all of the minimum chunk size, one character more than it, one
\* and two timestamps
ParaEmpty == <<>>
ParaWord == <<"a","b">>
ParaPadded == <<" ","c"," ">>
ParaHalf == <<FILLER>>
ParaFull == <<FILLER, FILLER>>
ParaOver == <<FILLER, FILLER, "x">>
ParaStamp == <<"0","0",":","0","1",":","3","0"," ","h","i">>
ParaTwoStamps == <<"a","t"," ","1",":","0","2",":","4","5"," ","0","0",":","0","2",":","4","5"," ","0","1",":","0","2",":","0","3">>
Paragraphs ==
    {ParaEmpty, ParaWord, ParaPadded, ParaHalf, ParaFull, ParaOver, ParaStamp, ParaTwoStamps}

MaxParagraphs == 3

\* the transcripts: up to MaxParagraphs paragraphs, one per line
Transcripts ==
    UNION {{Join(NEWLINE, ps) : ps \in [1..n -> Paragraphs]} : n \in 1..MaxParagraphs}

\* chunk sizes: one below the minimum, the minimum, one above it
ChunkSizes == {MIN_CHUNK_SIZE \div 100, MIN_CHUNK_SIZE, MIN_CHUNK_SIZE + 2 * FillerLen}

(***************************************************************************)
(* The run as a whole: core.main (core.py 509-548), which resolves the     *)
(* credential with core.get_api_key (core.py 124-139) before anything else.*)
(***************************************************************************)
VARIABLES
    pconfig,    \* the config dict main was called with: [api_key, base_url]
    environ,    \* the environment variables that hold a non-empty value
    pipeline,   \* [stage, pc, error, calls]: where main is, how it ended,
                \* and the network calls the run has attempted
    credential  \* [explicit, env_read, bearer]: the api_key main was called
                \* with, whether os.getenv has been called, and the key of
                \* the Authorization header of the generation requests

pvars == <<pconfig, environ, pipeline, credential>>

\* environment variable names and provider patterns
OPENAI == <<"o","p","e","n","a","i">>
GROQ == <<"g","r","o","q">>
GENERATIVELANGUAGE == <<"g","e","n","e","r","a","t","i","v","e","l","a","n","g","u","a","g","e">>
DEEPSEEK == <<"d","e","e","p","s","e","e","k">>
GENERIC_API_KEY == <<"a","p","i","_","k","e","y">>
LLM == <<"l","l","m">>

\* base URLs a config can carry: the Groq endpoint of the README (it holds
\* "groq" and "openai"), OpenAI, a provider only config.py knows, a host no
\* pattern matches, a host without scheme, and none
UrlGroq == <<"h","t","t","p","s",":","/","/","a","p","i",".","g","r","o","q",".","c","o","m","/","o","p","e","n","a","i","/","v","1">>
UrlDeepseek == <<"h","t","t","p","s",":","/","/","a","p","i",".","d","e","e","p","s","e","e","k",".","c","o","m">>
UrlOther == <<"h","t","t","p",":","/","/","l","l","m",".","e","x","a","m","p","l","e",".","o","r","g","/","v","1">>
UrlBare == <<"l","o","c","a","l","h","o","s","t",":","8","0","0","0">>
UrlMissing == <<>>
BaseUrls == {UrlGroq, UrlOpenAI, UrlDeepseek, UrlOther, UrlBare, UrlMissing}

EnvNames == {OPENAI, GROQ, DEEPSEEK, LLM, GENERIC_API_KEY}

\* a key given in the config, and the value of environment variable name
ExplicitKey == <<"s","k","-","c","f","g">>
KeyOf(name) == <<"k", "=">> \o name

\* os.getenv(name): the value, or nothing
GetEnv(env, name) == IF name \in env THEN KeyOf(name) ELSE <<>>

KeyFound(key) == [ok |-> TRUE, key |-> key, type |-> "none", message |-> "none"]
KeyError(type, message) == [ok |-> FALSE, key |-> <<>>, type |-> type, message |-> message]

\* core.get_api_key (core.py 124-139): the first of four provider names the
\* lower-cased base URL contains names the environment variable; the
\* api_key of the config is not looked at
core_get_api_key(cfg, env) ==
    LET base_url == Lower(cfg.base_url)
        name == CASE Contains(base_url, OPENAI) -> OPENAI
                  [] Contains(base_url, GROQ) -> GROQ
                  [] Contains(base_url, PERPLEXITY) -> PERPLEXITY
                  [] Contains(base_url, GENERATIVELANGUAGE) -> GENERATIVELANGUAGE
                  [] OTHER -> <<>>
    IN  IF name = <<>>
        THEN KeyError("ValueError", "No matching service found for base_url")
        ELSE IF GetEnv(env, name) = <<>>
        THEN KeyError("ValueError", "API key not found in environment for base_url")
        ELSE KeyFound(GetEnv(env, name))

(***************************************************************************)
(* config.get_api_key (config.py 46-104)                                   *)
(***************************************************************************)
\* the table with "openai" ahead of "groq"
API_PROVIDERS_OpenAIFirst ==
    << [pattern |-> <<"g","e","n","e","r","a","t","i","v","e","l","a","n","g","u","a","g","e",".","g","o","o","g","l","e","a","p","i","s",".","c","o","m">>,
       env_var |-> <<"g","e","n","e","r","a","t","i","v","e","l","a","n","g","u","a","g","e">>],
       [pattern |-> <<"p","e","r","p","l","e","x","i","t","y">>,
       env_var |-> <<"p","e","r","p","l","e","x","i","t","y">>],
       [pattern |-> <<"o","p","e","n","a","i">>,
       env_var |-> <<"o","p","e","n","a","i">>],
       [pattern |-> <<"g","r","o","q">>,
       env_var |-> <<"g","r","o","q">>],
       [pattern |-> <<"d","e","e","p","s","e","e","k">>,
       env_var |-> <<"d","e","e","p","s","e","e","k">>],
       [pattern |-> <<"a","n","t","h","r","o","p","i","c">>,
       env_var |-> <<"a","n","t","h","r","o","p","i","c">>],
       [pattern |-> <<"t","o","g","e","t","h","e","r">>,
       env_var |-> <<"t","o","g","e","t","h","e","r">>],
       [pattern |-> <<"h","y","p","e","r","b","o","l","i","c">>,
       env_var |-> <<"h","y","p","e","r","b","o","l","i","c">>],
       [pattern |-> <<"m","i","s","t","r","a","l">>,
       env_var |-> <<"m","i","s","t","r","a","l">>],
       [pattern |-> <<"c","o","h","e","r","e">>,
       env_var |-> <<"c","o","h","e","r","e">>],
       [pattern |-> <<"f","i","r","e","w","o","r","k","s">>,
       env_var |-> <<"f","i","r","e","w","o","r","k","s">>],
       [pattern |-> <<"a","n","y","s","c","a","l","e">>,
       env_var |-> <<"a","n","y","s","c","a","l","e">>],
       [pattern |-> <<"r","e","p","l","i","c","a","t","e">>,
       env_var |-> <<"r","e","p","l","i","c","a","t","e">>],
       [pattern |-> <<"h","u","g","g","i","n","g","f","a","c","e">>,
       env_var |-> <<"h","u","g","g","i","n","g","f","a","c","e">>],
       [pattern |-> <<"a","z","u","r","e">>,
       env_var |-> <<"a","z","u","r","e">>],
       [pattern |-> <<"o","p","e","n","r","o","u","t","e","r",".","a","i">>,
       env_var |-> <<"o","p","e","n","r","o","u","t","e","r">>] >>

\* API_PROVIDERS (config.py 26-43), in the order the dict is written and
\* iterated
API_PROVIDERS ==
    << [pattern |-> <<"g","e","n","e","r","a","t","i","v","e","l","a","n","g","u","a","g","e",".","g","o","o","g","l","e","a","p","i","s",".","c","o","m">>,
       env_var |-> <<"g","e","n","e","r","a","t","i","v","e","l","a","n","g","u","a","g","e">>],
       [pattern |-> <<"p","e","r","p","l","e","x","i","t","y">>,
       env_var |-> <<"p","e","r","p","l","e","x","i","t","y">>],
       [pattern |-> <<"g","r","o","q">>,
       env_var |-> <<"g","r","o","q">>],
       [pattern |-> <<"o","p","e","n","a","i">>,
       env_var |-> <<"o","p","e","n","a","i">>],
       [pattern |-> <<"d","e","e","p","s","e","e","k">>,
       env_var |-> <<"d","e","e","p","s","e","e","k">>],
       [pattern |-> <<"a","n","t","h","r","o","p","i","c">>,
       env_var |-> <<"a","n","t","h","r","o","p","i","c">>],
       [pattern |-> <<"t","o","g","e","t","h","e","r">>,
       env_var |-> <<"t","o","g","e","t","h","e","r">>],
       [pattern |-> <<"h","y","p","e","r","b","o","l","i","c">>,
       env_var |-> <<"h","y","p","e","r","b","o","l","i","c">>],
       [pattern |-> <<"m","i","s","t","r","a","l">>,
       env_var |-> <<"m","i","s","t","r","a","l">>],
       [pattern |-> <<"c","o","h","e","r","e">>,
       env_var |-> <<"c","o","h","e","r","e">>],
       [pattern |-> <<"f","i","r","e","w","o","r","k","s">>,
       env_var |-> <<"f","i","r","e","w","o","r","k","s">>],
       [pattern |-> <<"a","n","y","s","c","a","l","e">>,
       env_var |-> <<"a","n","y","s","c","a","l","e">>],
       [pattern |-> <<"r","e","p","l","i","c","a","t","e">>,
       env_var |-> <<"r","e","p","l","i","c","a","t","e">>],
       [pattern |-> <<"h","u","g","g","i","n","g","f","a","c","e">>,
       env_var |-> <<"h","u","g","g","i","n","g","f","a","c","e">>],
       [pattern |-> <<"a","z","u","r","e">>,
       env_var |-> <<"a","z","u","r","e">>],
       [pattern |-> <<"o","p","e","n","r","o","u","t","e","r",".","a","i">>,
       env_var |-> <<"o","p","e","n","r","o","u","t","e","r">>] >>

\* the loop over API_PROVIDERS (config.py 75-80): every pattern the URL
\* contains has its variable looked up, and the first value found ends it
RECURSIVE MatchProviders(_, _, _, _)
MatchProviders(providers, base_url, env, matched_key) ==
    IF providers = <<>> THEN matched_key
    ELSE LET provider == Head(providers) IN
         IF Contains(base_url, provider.pattern)
         THEN LET key == GetEnv(env, provider.env_var) IN
              IF key # <<>> THEN key
              ELSE MatchProviders(Tail(providers), base_url, env, key)
         ELSE MatchProviders(Tail(providers), base_url, env, matched_key)

HTTP_SCHEME == <<"h","t","t","p",":","/","/">>
HTTPS_SCHEME == <<"h","t","t","p","s",":","/","/">>
API_DOT == <<"a","p","i",".">>

\* the longest run of characters other than "." and "/" at the start of s
DomainRun(s) ==
    LET stops == {i \in 1..Len(s) : s[i] \in {".", "/"}} IN
    IF stops = {} THEN s
    ELSE SubSeq(s, 1, (CHOOSE i \in stops : \A j \in stops : i <= j) - 1)

\* group 1 of https?://(?:api\.)?([^./]+) when the scheme ends just before
\* rest: "api." is skipped when a name follows it
DomainAfterScheme(rest) ==
    IF StartsWith(rest, API_DOT) /\ DomainRun(SubSeq(rest, Len(API_DOT) + 1, Len(rest))) # <<>>
    THEN DomainRun(SubSeq(rest, Len(API_DOT) + 1, Len(rest)))
    ELSE DomainRun(rest)

\* re.search(r"https?://(?:api\.)?([^./]+)", base_url): group 1 of the
\* leftmost match, or nothing (config.py 85-87)
DomainName(base_url) ==
    LET RestAt(i) ==
            IF StartsWith(SubSeq(base_url, i, Len(base_url)), HTTPS_SCHEME)
            THEN SubSeq(base_url, i + Len(HTTPS_SCHEME), Len(base_url))
            ELSE SubSeq(base_url, i + Len(HTTP_SCHEME), Len(base_url))
        hits == {i \in 1..Len(base_url) :
                   /\ \/ StartsWith(SubSeq(base_url, i, Len(base_url)), HTTPS_SCHEME)
                      \/ StartsWith(SubSeq(base_url, i, Len(base_url)), HTTP_SCHEME)
                   /\ DomainAfterScheme(RestAt(i)) # <<>>}
    IN  IF hits = {} THEN <<>>
        ELSE DomainAfterScheme(RestAt(CHOOSE i \in hits : \A j \in hits : i <= j))

config_get_api_key(cfg, env) ==
    IF cfg.api_key # <<>> THEN KeyFound(cfg.api_key)
    ELSE LET base_url == Lower(cfg.base_url) IN
         IF base_url = <<>>
         THEN KeyError("ConfigurationError", "base_url is required but not provided")
         ELSE LET by_pattern == MatchProviders(API_PROVIDERS, base_url, env, <<>>)
                  by_domain ==
                      IF by_pattern # <<>> THEN by_pattern
                      ELSE IF DomainName(base_url) # <<>>
                      THEN GetEnv(env, DomainName(base_url))
                      ELSE by_pattern
                  matched_key ==
                      IF by_domain # <<>> THEN by_domain
                      ELSE GetEnv(env, GENERIC_API_KEY)
              IN  IF matched_key = <<>>
                  THEN KeyError("APIKeyError", "No API key found for base_url")
                  ELSE KeyFound(matched_key)

\* an order in which the transcript is fetched before the credential is resolved
MainOrderTranscriptFirst == <<"transcript", "credential", "chunks", "dispatch">>

\* the statements of main in the order it runs them (core.py 512, 513, 518, 535)
MainOrder == <<"credential", "transcript", "chunks", "dispatch">>

StageAt(stage) == pipeline.pc = "running" /\ MainOrder[pipeline.stage] = stage

\* main goes on to its next statement, or returns after the last one
Advance(calls) ==
    pipeline' = IF pipeline.stage < Len(MainOrder)
                THEN [pipeline EXCEPT !.stage = @ + 1, !.calls = calls]
                ELSE [pipeline EXCEPT !.pc = "returned", !.calls = calls]

\* an exception of a statement reaches `except Exception as e: raise
\* Exception(f"Processing failed: {str(e)}")` (core.py 547-548): the caller
\* gets a plain Exception that carries the message
Fail(message, calls) ==
    pipeline' = [pipeline EXCEPT !.pc = "failed", !.calls = calls,
                     !.error = [type |-> "Exception", message |-> message]]

PInit ==
    /\ pconfig \in [api_key : {<<>>, ExplicitKey}, base_url : BaseUrls]
    /\ environ \in SUBSET EnvNames
    /\ pipeline = [stage |-> 1, pc |-> "running",
                   error |-> [type |-> "none", message |-> "none"], calls |-> {}]
    /\ credential = [explicit |-> pconfig.api_key, env_read |-> FALSE, bearer |-> <<>>]

\* core.get_api_key calls os.getenv whenever one of its four provider names
\* is in the base URL (core.py 126-133), whatever else the config holds
CoreReadsEnvironment(cfg) ==
    \E name \in {OPENAI, GROQ, PERPLEXITY, GENERATIVELANGUAGE} :
        Contains(Lower(cfg.base_url), name)

\* config["api_key"] = get_api_key(config) (core.py 512)
MainCredential ==
    LET resolved == core_get_api_key(pconfig, environ) IN
    /\ StageAt("credential")
    /\ UNCHANGED environ
    /\ credential' = [credential EXCEPT !.env_read = CoreReadsEnvironment(pconfig)]
    /\ IF resolved.ok
       THEN /\ pconfig' = [pconfig EXCEPT !.api_key = resolved.key]
            /\ Advance(pipeline.calls)
       ELSE /\ UNCHANGED pconfig
            /\ Fail(resolved.message, pipeline.calls)

\* what get_transcript can go through (core.py 237-272): the caption
\* fetch, or a media download (none for a local file) and the transcription
TranscriptCourses ==
    { [calls |-> {"caption_fetch"}, ok |-> TRUE, message |-> "none"],
      [calls |-> {"caption_fetch"}, ok |-> FALSE, message |-> "Failed to get YouTube transcript"],
      [calls |-> {"media_download"}, ok |-> FALSE, message |-> "Failed to download YouTube audio"],
      [calls |-> {"media_download", "transcription"}, ok |-> TRUE, message |-> "none"],
      [calls |-> {"media_download", "transcription"}, ok |-> FALSE, message |-> "Transcription failed"],
      [calls |-> {"transcription"}, ok |-> TRUE, message |-> "none"],
      [calls |-> {}, ok |-> FALSE, message |-> "Failed to process Local File"] }

\* transcript = get_transcript(config) (core.py 513)
MainTranscript(course) ==
    /\ StageAt("transcript")
    /\ UNCHANGED <<pconfig, environ, credential>>
    /\ IF course.ok
       THEN Advance(pipeline.calls \cup course.calls)
       ELSE Fail(course.message, pipeline.calls \cup course.calls)

\* the transcript is checked and cut into chunks (core.py 514-522)
MainChunks(blank) ==
    /\ StageAt("chunks")
    /\ UNCHANGED <<pconfig, environ, credential>>
    /\ IF blank
       THEN Fail("No transcript content to process", pipeline.calls)
       ELSE Advance(pipeline.calls)

\* process_chunks and the test of its result (core.py 535-539); every
\* request carries "Authorization: Bearer " + config['api_key'] (349-350)
MainDispatch(some) ==
    /\ StageAt("dispatch")
    /\ UNCHANGED <<pconfig, environ>>
    /\ credential' = [credential EXCEPT !.bearer = pconfig.api_key]
    /\ IF some
       THEN Advance(pipeline.calls \cup {"generation_request"})
       ELSE Fail("No valid summaries generated",
                 pipeline.calls \cup {"generation_request"})

PIdle ==
    /\ pconfig = [api_key |-> ExplicitKey, base_url |-> UrlOpenAI]
    /\ environ = {}
    /\ pipeline = [stage |-> 1, pc |-> "idle",
                   error |-> [type |-> "none", message |-> "none"], calls |-> {}]
    /\ credential = [explicit |-> ExplicitKey, env_read |-> FALSE, bearer |-> <<>>]

(***************************************************************************)
(* Calls of the functions, one at a time: call holds the function and its  *)
(* arguments, ret what the call gave.                                      *)
(***************************************************************************)
VARIABLES
    call,   \* [fn, args]
    ret     \* [state, value]: "pending", then "returned" with the value
            \* or "raised" with the exception

fvars == <<call, ret>>

Pending_ret == [state |-> "pending", value |-> <<>>]
Returned(value) == [state |-> "returned", value |-> value]
Raised(exception) == [state |-> "raised", value |-> exception]

Calls(fn) == call.fn = fn /\ ret.state = "pending"

SegmenterCalls ==
    [fn : {"chunk_text", "extract_and_clean_chunks"},
     args : [text : Transcripts, chunk_size : ChunkSizes]]

CallChunkText ==
    /\ Calls("chunk_text")
    /\ ret' = Returned(chunk_text(call.args.text, call.args.chunk_size))
    /\ UNCHANGED call

CallExtractAndCleanChunks ==
    /\ Calls("extract_and_clean_chunks")
    /\ ret' = Returned(extract_and_clean_chunks(call.args.text, call.args.chunk_size))
    /\ UNCHANGED call

\* results handed to the Assembler: timestamps that are empty, HH:MM:SS,
\* H:M:S and no timestamp at all, for a YouTube source and another kind
TS_short == <<"1",":","2",":","3">>
TS_words == <<"s","o","o","n">>
SummaryA == <<"A">>
SummaryB == <<"B">>
MaxResults == 2
AssemblerResults ==
    [timestamp : {<<>>, TS_5s, TS_1h, TS_short, TS_words}, summary : {SummaryA, SummaryB}]
AssemblerCalls ==
    [fn : {"format_summary_with_timestamps"},
     args : [summaries : UNION {[1..n -> AssemblerResults] : n \in 1..MaxResults},
             config : [type_of_source : {"YouTube Video", "Local File"},
                       source_url_or_path : {SourceUrl}]]]

CallFormatSummary ==
    /\ Calls("format_summary_with_timestamps")
    /\ ret' = Returned(format_summary_with_timestamps(call.args.summaries,
                                                      call.args.config))
    /\ UNCHANGED call

\* reply envelopes: with or without "choices", a choice with or without
\* "message", a message with or without "content"; contents with the
\* closing reasoning marker twice, with the marker and a fenced block, and
\* with a fenced block alone
ReplyThinkTwice == <<" ","<","t","h","i","n","k",">","a","<","/","t","h","i","n","k",">","b","<","/","t","h","i","n","k",">"," ","o","k"," ","\n">>
ReplyThinkFence == <<"<","t","h","i","n","k",">","c","<","/","t","h","i","n","k",">","\n",BACKTICK,BACKTICK,BACKTICK,"j","s","o","n","\n","{","}","\n",BACKTICK,BACKTICK,BACKTICK>>
ReplyFence == <<BACKTICK,BACKTICK,BACKTICK,"\n","d",BACKTICK,BACKTICK,BACKTICK>>
UrlPerplexity == <<"h","t","t","p","s",":","/","/","a","p","i",".","p","e","r","p","l","e","x","i","t","y",".","a","i">>
UrlPerplexityCaps == <<"h","t","t","p","s",":","/","/","P","E","R","P","L","E","X","I","T","Y",".","e","x","a","m","p","l","e","/","v","1">>
Choices ==
    [has_message : {TRUE}, has_content : {TRUE},
     content : {ReplyGood, ReplyAsk, ReplyBlank, ReplyThinkTwice, ReplyThinkFence, ReplyFence}]
    \cup [has_message : BOOLEAN, has_content : {FALSE}, content : {<<>>}]
Envelopes ==
    [has_choices : {FALSE}, choices : {<<>>}]
    \cup [has_choices : {TRUE}, choices : {<<>>} \cup {<<c>> : c \in Choices}
                                            \cup {<<c, d>> : c \in Choices, d \in Choices}]

\* response.get("choices", [{}]): the list, or one empty choice (api.py 101)
ChoicesOf(response) ==
    IF response.has_choices THEN response.choices
    ELSE <<[has_message |-> FALSE, has_content |-> FALSE, content |-> <<>>]>>

\* `[0]` raises IndexError on an empty list
FirstChoiceRaises(response) == ChoicesOf(response) = <<>>

\* .get("message", {}).get("content", "") of the first choice
MessageContent(response) ==
    LET first == ChoicesOf(response)[1] IN
    IF first.has_message /\ first.has_content THEN first.content ELSE <<>>

\* the base URLs of the calls: two that do not hold "perplexity", two that
\* do, one of them in capitals
ParseCalls ==
    [fn : {"parse_response_content"},
     args : [response : Envelopes,
             base_url : {UrlOpenAI, UrlGroq, UrlPerplexity, UrlPerplexityCaps}]]

CallParseResponseContent ==
    /\ Calls("parse_response_content")
    /\ ret' = IF FirstChoiceRaises(call.args.response)
              THEN Raised("IndexError")
              ELSE Returned(parse_response_content(
                       [content |-> MessageContent(call.args.response)],
                       call.args.base_url))
    /\ UNCHANGED call

KeyCalls ==
    [fn : {"get_api_key"},
     args : [cfg : [api_key : {<<>>, ExplicitKey}, base_url : BaseUrls],
             env : SUBSET EnvNames]]

CallGetApiKey ==
    LET resolved == config_get_api_key(call.args.cfg, call.args.env) IN
    /\ Calls("get_api_key")
    /\ ret' = IF resolved.ok THEN Returned(resolved.key) ELSE Raised(resolved.type)
    /\ UNCHANGED call

\* what the backend does to one request of process_chunk: the outcomes of
\* the dispatcher, or the task is cancelled while it awaits the response
ChunkOutcomes == Outcomes \cup {[kind |-> "cancel", reply |-> NoReply]}

\* how process_chunk leaves: a returned text, or an exception of some type
ChunkEnd(requests, kind, text) ==
    [requests |-> requests, kind |-> kind, text |-> text]

\* the exception for a missing required key: api.py 141-143 raises
\* ConfigurationError, core.py 345-347 raises ValueError
MissingKeyError(im) == IF im = "api" THEN "ConfigurationError" ELSE "ValueError"

\* `for attempt in range(max_retries)` of process_chunk (api.py 171-218,
\* core.py 374-413) from attempt number `attempt` on, the backend answering
\* request number k with outcomes[k + 1]: a 200 returns the summary; a
\* non-2xx or an exception goes to the next attempt while one is allowed;
\* the last non-2xx ends as FinalStatusEnd says, the last exception and a
\* cancellation return ""
RECURSIVE Attempts(_, _, _)
Attempts(im, outcomes, attempt) ==
    LET o == outcomes[attempt + 1]
        after == Attempts(im, outcomes, attempt + 1)
    IN  CASE o.kind = "ok" ->
                 ChunkEnd(attempt + 1, "value", ReplySummary(o.reply))
          [] o.kind = "cancel" ->
                 ChunkEnd(attempt + 1, "value", <<>>)
          [] o.kind = "status" /\ RetryAllowed(attempt) -> after
          [] o.kind = "status" /\ ~RetryAllowed(attempt) ->
                 ChunkEnd(attempt + 1, FinalStatusEnd(im), <<>>)
          [] o.kind = "exc" /\ RetryAllowed(attempt) -> after
          [] o.kind = "exc" /\ ~RetryAllowed(attempt) ->
                 ChunkEnd(attempt + 1, "value", <<>>)

\* process_chunk(chunk, template, config) of copy `im`: a blank chunk
\* returns "" at once, a config short of a required key raises, otherwise
\* the retry loop runs
process_chunk(im, blank, required_present, outcomes) ==
    IF blank THEN ChunkEnd(0, "value", <<>>)
    ELSE IF ~required_present THEN ChunkEnd(0, MissingKeyError(im), <<>>)
    ELSE Attempts(im, outcomes, 0)

ChunkCalls ==
    [fn : {"process_chunk"},
     args : [blank : BOOLEAN, required_present : BOOLEAN,
             outcomes : [1..max_retries -> ChunkOutcomes]]]

\* the same call made to the two copies
CallProcessChunk ==
    LET a == call.args IN
    /\ Calls("process_chunk")
    /\ ret' = Returned(
           [api  |-> process_chunk("api", a.blank, a.required_present, a.outcomes),
            core |-> process_chunk("core", a.blank, a.required_present, a.outcomes)])
    /\ UNCHANGED call

FInit ==
    /\ call \in SegmenterCalls \cup AssemblerCalls \cup ParseCalls \cup KeyCalls
                 \cup ChunkCalls
    /\ ret = Pending_ret

FIdle ==
    /\ call = [fn |-> "none", args |-> <<>>]
    /\ ret = [state |-> "idle", value |-> <<>>]

\* while the summaries are dispatched no acquisition is running, and the
\* other way round
AIdle ==
    /\ runs = [r \in Runs |-> [source |-> [type_of_source |-> "YouTube Video",
                                           locator |-> "youtube",
                                           use_youtube_captions |-> TRUE],
                               pc |-> "ended", strategy |-> "captions",
                               temp_path |-> NoPath, temp_wav |-> NoPath,
                               audio_path |-> NoPath, outcome |-> "returned"]]
    /\ files = {}
    /\ next_uuid = 1
    /\ created = [r \in Runs |-> {}]
    /\ touched = [r \in Runs |-> {}]
    /\ invoked = [r \in Runs |-> {}]
    /\ deleted = [r \in Runs |-> {}]
    /\ misuse = [r \in Runs |-> {}]

DIdle ==
    /\ impl = "api"
    /\ config = [parallel_api_calls |-> MinParallel, type_of_source |-> "YouTube Video",
                 source_url_or_path |-> SourceUrl, required_present |-> TRUE]
    /\ chunks = <<>>
    /\ semaphore = [built |-> FALSE, value |-> 0]
    /\ tasks = <<>>
    /\ completed = 0
    /\ progress = [current |-> 0, dots_shown |-> 0]
    /\ overtaken = FALSE
    /\ dispatch = [pc |-> "idle", valid_results |-> <<>>]
    /\ mainState = [pc |-> "idle", outcome |-> "none", text |-> <<>>]

vars == <<dvars, avars, pvars, fvars>>

Init == DInit /\ AIdle /\ PIdle /\ FIdle
Next ==
    \/ StartDispatch /\ UNCHANGED <<avars, pvars, fvars>>
    \/ \E i \in Positions : Acquire(i) /\ UNCHANGED <<avars, pvars, fvars>>
    \/ \E i \in Positions : \E o \in Outcomes : Respond(i, o) /\ UNCHANGED <<avars, pvars, fvars>>
    \/ \E i \in Positions : Wake(i) /\ UNCHANGED <<avars, pvars, fvars>>
    \/ \E i \in Positions : Cancelled(i) /\ UNCHANGED <<avars, pvars, fvars>>
    \/ Collect /\ UNCHANGED <<avars, pvars, fvars>>
    \/ MainFinish /\ UNCHANGED <<avars, pvars, fvars>>
    \/ Interrupt /\ UNCHANGED <<avars, pvars, fvars>>
    \/ MainCleanup /\ UNCHANGED <<avars, pvars, fvars>>
Spec == Init /\ [][Next]_vars

\* The event loop runs every task that can run: a request in flight is
\* answered (a response or an error), a sleep ends, a cancellation is
\* delivered, and a waiter of the semaphore is woken when a slot is free
\* (asyncio wakes waiters first come, first served, hence strong fairness);
\* process_chunks itself goes on when it can.  Nothing obliges the caller to
\* interrupt the run.
TaskFairness(i) ==
    /\ SF_vars(i \in Positions /\ Acquire(i) /\ UNCHANGED <<avars, pvars, fvars>>)
    /\ WF_vars(i \in Positions /\ (\E o \in Outcomes : Respond(i, o))
                   /\ UNCHANGED <<avars, pvars, fvars>>)
    /\ WF_vars(i \in Positions /\ Wake(i) /\ UNCHANGED <<avars, pvars, fvars>>)
    /\ WF_vars(i \in Positions /\ Cancelled(i) /\ UNCHANGED <<avars, pvars, fvars>>)

LoopFairness ==
    /\ \A i \in 1..MaxChunks : TaskFairness(i)
    /\ WF_vars(StartDispatch /\ UNCHANGED <<avars, pvars, fvars>>)
    /\ WF_vars(Collect /\ UNCHANGED <<avars, pvars, fvars>>)

SpecLive == Init /\ [][Next]_vars /\ LoopFairness

InitAcq == AInit /\ DIdle /\ PIdle /\ FIdle
NextAcq ==
    \/ \E r \in Runs : AcqStart(r) /\ UNCHANGED <<dvars, pvars, fvars>>
    \/ \E r \in Runs, ok \in BOOLEAN : FetchCaptions(r, ok) /\ UNCHANGED <<dvars, pvars, fvars>>
    \/ \E r \in Runs, ok \in BOOLEAN : Resolve(r, ok) /\ UNCHANGED <<dvars, pvars, fvars>>
    \/ \E r \in Runs, ok \in BOOLEAN, partial \in BOOLEAN :
          Download(r, ok, partial) /\ UNCHANGED <<dvars, pvars, fvars>>
    \/ \E r \in Runs, ok \in BOOLEAN, partial \in BOOLEAN :
          ToWav(r, ok, partial) /\ UNCHANGED <<dvars, pvars, fvars>>
    \/ \E r \in Runs, ok \in BOOLEAN, partial \in BOOLEAN :
          Compress(r, ok, partial) /\ UNCHANGED <<dvars, pvars, fvars>>
    \/ \E r \in Runs, ok \in BOOLEAN : Transcribe(r, ok) /\ UNCHANGED <<dvars, pvars, fvars>>
SpecAcq == InitAcq /\ [][NextAcq]_vars

InitMain == PInit /\ DIdle /\ AIdle /\ FIdle
NextMain ==
    \/ MainCredential /\ UNCHANGED <<dvars, avars, fvars>>
    \/ \E course \in TranscriptCourses : MainTranscript(course) /\ UNCHANGED <<dvars, avars, fvars>>
    \/ \E blank \in BOOLEAN : MainChunks(blank) /\ UNCHANGED <<dvars, avars, fvars>>
    \/ \E some \in BOOLEAN : MainDispatch(some) /\ UNCHANGED <<dvars, avars, fvars>>
SpecMain == InitMain /\ [][NextMain]_vars

InitFn == FInit /\ DIdle /\ AIdle /\ PIdle
NextFn ==
    \/ CallChunkText /\ UNCHANGED <<dvars, avars, pvars>>
    \/ CallExtractAndCleanChunks /\ UNCHANGED <<dvars, avars, pvars>>
    \/ CallFormatSummary /\ UNCHANGED <<dvars, avars, pvars>>
    \/ CallParseResponseContent /\ UNCHANGED <<dvars, avars, pvars>>
    \/ CallGetApiKey /\ UNCHANGED <<dvars, avars, pvars>>
    \/ CallProcessChunk /\ UNCHANGED <<dvars, avars, pvars>>
SpecFn == InitFn /\ [][NextFn]_vars

(***************************************************************************)
(* config.validate_config (config.py 128-131): the range check of          *)
(* parallel_api_calls.  No function of the package calls validate_config.  *)
(***************************************************************************)
ParallelCallsValid(parallel_calls) ==
    ~(parallel_calls < MinParallel \/ parallel_calls > LimitParallel)

(***************************************************************************)
(* Claims about the dispatcher.                                            *)
(***************************************************************************)
Ended(i) == i \in Submitted /\ tasks[i].pc = "done"

\* C1: with a valid concurrency limit C, the number of chunk tasks with a
\* request in flight never exceeds C.
C1_InFlightWithinLimit ==
    (semaphore.built /\ ParallelCallsValid(config.parallel_api_calls))
        => Cardinality(InFlight) <= config.parallel_api_calls

\* the limit binds: as many requests in flight as the limit allows while
\* another task waits for a slot
C1_Witness ==
    /\ semaphore.built
    /\ ParallelCallsValid(config.parallel_api_calls)
    /\ Cardinality(InFlight) = config.parallel_api_calls
    /\ \E i \in Submitted : tasks[i].pc = "semwait"

RECURSIVE KeptFrom(_)
\* the positions from i on whose task ended with a result that is kept
KeptFrom(i) ==
    IF i > Len(chunks) THEN <<>>
    ELSE (IF Ended(i) /\ tasks[i].result.kind = "value"
             /\ Strip(tasks[i].result.summary) # <<>>
          THEN <<i>> ELSE <<>>) \o KeptFrom(i + 1)

\* C2: the returned results and the pieces of the assembled text follow the
\* order of the input chunks, whatever the order in which the calls ended.
C2_InputOrderKept ==
    /\ dispatch.pc = "returned" =>
         /\ Len(dispatch.valid_results) = Len(KeptFrom(1))
         /\ \A k \in 1..Len(dispatch.valid_results) :
              /\ dispatch.valid_results[k].position = KeptFrom(1)[k]
              /\ dispatch.valid_results[k].summary
                   = tasks[KeptFrom(1)[k]].result.summary
              /\ dispatch.valid_results[k].timestamp
                   = chunks[KeptFrom(1)[k]].timestamp
    /\ mainState.outcome = "returned" =>
         mainState.text =
           Join(BLANK_LINE,
                [k \in 1..Len(KeptFrom(1)) |->
                   FormatPiece([timestamp |-> chunks[KeptFrom(1)[k]].timestamp,
                                summary |-> tasks[KeptFrom(1)[k]].result.summary],
                               config)])

\* two results are assembled although a later chunk's call ended first
C2_Witness ==
    /\ mainState.outcome = "returned"
    /\ overtaken
    /\ Len(dispatch.valid_results) >= 2

\* a task that was not cancelled and whose requests were all answered
\* with a non-2xx status
OnlyNon2xx(i) ==
    /\ Ended(i)
    /\ ~tasks[i].cancel
    /\ tasks[i].requests > 0
    /\ tasks[i].only_non2xx

Kept(i) ==
    /\ Ended(i)
    /\ tasks[i].result.kind = "value"
    /\ Strip(tasks[i].result.summary) # <<>>

\* every submitted chunk ended on a 200 reply that held an
\* insufficient-context phrase
AllAsked == Submitted # {} /\ \A i \in Submitted : Ended(i) /\ tasks[i].result.asked

\* C4: a reply holding "please provide" or "please share" in any letter case
\* gives an empty result; when every chunk's reply does, a run that is not
\* interrupted ends with the no-summaries error, and no run returns an
\* empty text as its summary.
C4_AllInsufficientFails ==
    /\ \A i \in Positions :
         (Ended(i) /\ tasks[i].result.asked) => tasks[i].result.summary = <<>>
    /\ (mainState.pc = "done" /\ mainState.outcome # "interrupted" /\ AllAsked)
         => mainState.outcome = "raised_NoValidSummaries"
    /\ mainState.outcome = "returned" =>
         /\ dispatch.valid_results # <<>>
         /\ Strip(mainState.text) # <<>>

\* two chunks, both answered with an insufficient-context reply, and the
\* run has ended with the no-summaries error
C4_Witness ==
    /\ Cardinality(Submitted) >= 2
    /\ AllAsked
    /\ mainState.outcome = "raised_NoValidSummaries"

\* C5: a task that ends with an exception aborts no sibling: when
\* process_chunks returns, every submitted task has ended on its own, every
\* kept result is in the returned list, and a run with at least one kept
\* result that is not interrupted returns a summary.
C5_SiblingsSurvive ==
    /\ dispatch.pc = "returned" =>
         \A i \in Submitted :
             /\ Ended(i)
             /\ ~tasks[i].cancel
             /\ tasks[i].result.kind \in {"value", "APIError", "ConfigurationError"}
             /\ Kept(i) =>
                  \E k \in 1..Len(dispatch.valid_results) :
                      /\ dispatch.valid_results[k].position = i
                      /\ dispatch.valid_results[k].summary = tasks[i].result.summary
    /\ (mainState.pc = "done" /\ mainState.outcome # "interrupted"
          /\ \E i \in Submitted : Kept(i))
         => mainState.outcome = "returned"

\* one task raised APIError, a sibling's result is kept, the run returned
C5_Witness ==
    /\ mainState.outcome = "returned"
    /\ \E i, j \in Submitted :
         /\ tasks[i].result.kind = "APIError"
         /\ Kept(j)

\* the slots of the semaphore are all accounted for
SemaphoreConsistent ==
    semaphore.built =>
        semaphore.value + Cardinality({i \in Submitted : tasks[i].held})
            = config.parallel_api_calls

\* C6 as stated: a task cancelled at any suspension point ends with an empty
\* result, issues no further request, and the semaphore stays consistent.
C6_AsStated ==
    /\ SemaphoreConsistent
    /\ \A i \in Positions :
         (Ended(i) /\ tasks[i].cancel) =>
             /\ tasks[i].result.kind = "value"
             /\ tasks[i].result.summary = <<>>

\* C7 as stated: a parallel_api_calls value outside 1..100 never builds the
\* semaphore and never creates a task; the run ends with a configuration error.
C7_AsStated ==
    ~ParallelCallsValid(config.parallel_api_calls) =>
        /\ ~semaphore.built
        /\ Submitted = {}
        /\ mainState.pc = "done" => mainState.outcome = "raised_ConfigurationError"

\* C8 as stated: when the dispatch of api.process_chunks finishes, the
\* progress counter equals the number of submitted tasks.
C8_AsStated ==
    (impl = "api" /\ dispatch.pc = "returned") =>
        /\ completed = Cardinality(Submitted)
        /\ progress.current = Cardinality(Submitted)

(***************************************************************************)
(* Acquisition claims                                                      *)
(***************************************************************************)
AcqEnded(r) == runs[r].pc = "ended"

\* the other run has not started: what the run leaves behind is its own doing
Alone(r) == \A o \in Runs \ {r} : runs[o].pc = "start"

\* C9, as stated: once get_transcript has returned or raised, none of the
\* temporary files the run wrote (downloaded media, intermediate WAV,
\* processed MP3) exists any more.  The handlers break it: a run that ran
\* alone and failed in a transcoding stage leaves its files behind.
C9_AsStated ==
    \A r \in Runs : (AcqEnded(r) /\ Alone(r)) => created[r] \cap files = {}

\* C10, as stated: two concurrent runs never write, read or delete the same
\* temporary path.  Two handler runs of the same kind work on the same
\* fixed names.
C10_AsStated ==
    \A r1 \in Runs, r2 \in Runs : r1 # r2 => touched[r1] \cap touched[r2] = {}

(***************************************************************************)
(* Claims about the run as a whole                                         *)
(***************************************************************************)
\* the messages of the two errors core.get_api_key raises
CredentialMessages ==
    {"No matching service found for base_url",
     "API key not found in environment for base_url"}

\* C11: when no API key can be resolved for the configured endpoint, the run
\* fails with the credential error and has attempted no network call: while
\* main runs it has made none, and it ends failed, with the message of the
\* credential step.
C11_CredentialBeforeNetwork ==
    ~core_get_api_key(pconfig, environ).ok =>
        /\ pipeline.calls = {}
        /\ pipeline.pc \in {"idle", "running", "failed"}
        /\ pipeline.pc = "failed" =>
              /\ pipeline.error.type = "Exception"
              /\ pipeline.error.message \in CredentialMessages

\* a run whose endpoint has no key in the environment has failed
C11_Witness ==
    /\ pipeline.pc = "failed"
    /\ pconfig.base_url = UrlOpenAI
    /\ OPENAI \notin environ
    /\ pipeline.error.message = "API key not found in environment for base_url"
    /\ pipeline.calls = {}

\* C12 as stated: a configuration error (a required parameter missing from
\* the config) aborts the run as that configuration error.  It does not:
\* each task raises it, the gather hands it back as a result, process_chunks
\* drops it, and main fails with "No valid summaries generated".
C12_AsStated ==
    (/\ ~RequiredKeysPresent(config)
     /\ mainState.pc = "done"
     /\ mainState.outcome # "interrupted"
     /\ Submitted # {}
     /\ ParallelCallsValid(config.parallel_api_calls))
        => mainState.outcome = "raised_ConfigurationError"

\* the caption track is selected: YouTube kind, captions enabled, and the
\* locator is recognised as a YouTube URL
CaptionTrack(source) ==
    /\ source.type_of_source = "YouTube Video"
    /\ source.use_youtube_captions
    /\ is_youtube_url(source.locator)

\* C13: a run on the caption track calls nothing but the caption fetch and
\* touches no file; when it does not return the transcript, it raises
\* TranscriptError and stays there: no download, transcoder or transcription
\* backend is invoked.
C13_CaptionFailureNoFallback ==
    \A r \in Runs :
        CaptionTrack(runs[r].source) =>
            /\ invoked[r] \subseteq {"captions"}
            /\ touched[r] = {}
            /\ runs[r].pc \in {"start", "captions", "ended"}
            /\ runs[r].pc = "ended" =>
                  /\ invoked[r] = {"captions"}
                  /\ runs[r].outcome \in {"returned", "TranscriptError"}

\* a caption fetch has failed and the run has ended with TranscriptError
C13_Witness ==
    \E r \in Runs :
        /\ CaptionTrack(runs[r].source)
        /\ runs[r].pc = "ended"
        /\ runs[r].outcome = "TranscriptError"
        /\ invoked[r] = {"captions"}

(***************************************************************************)
(* Claims about the functions                                              *)
(***************************************************************************)
SegmenterReturned(fn) == call.fn = fn /\ ret.state = "returned"

\* the chunk texts of the pairs extract_and_clean_chunks returned
PairTexts(pairs) == [k \in 1..Len(pairs) |-> pairs[k].text]

\* C14 as stated: joining the returned chunk texts with '\n' gives the input
\* text back, for chunk_text and for the pairs of extract_and_clean_chunks.
\* The second half fails: extract_and_clean_chunks strips every chunk.
C14_AsStated ==
    /\ SegmenterReturned("chunk_text") => Join(NEWLINE, ret.value) = call.args.text
    /\ SegmenterReturned("extract_and_clean_chunks") =>
          Join(NEWLINE, PairTexts(ret.value)) = call.args.text

\* C15 as stated: no returned chunk is the empty string unless the input is
\* empty, and then the result is the one chunk "".  An empty first line
\* followed by a paragraph of the chunk size is cut off as a chunk "".
C15_AsStated ==
    SegmenterReturned("chunk_text") =>
        /\ call.args.text = <<>> => ret.value = << <<>> >>
        /\ \A k \in 1..Len(ret.value) : ret.value[k] = <<>> => call.args.text = <<>>

\* w is HH:MM:SS: two digits, a colon, two digits, a colon, two digits
IsHHMMSS(w) ==
    /\ Len(w) = 8
    /\ w[3] = ":" /\ w[6] = ":"
    /\ \A k \in {1, 2, 4, 5, 7, 8} : w[k] \in {"0","1","2","3","4","5","6","7","8","9"}

\* the places of text t where an HH:MM:SS starts
StampPlaces(t) == {i \in 1..(Len(t) - 7) : IsHHMMSS(SubSeq(t, i, i + 7))}

\* C16: every pair extract_and_clean_chunks returns carries the first
\* HH:MM:SS of its chunk text as timestamp, and the empty string when the
\* text has none; chunks without a timestamp are returned like the others.
C16_FirstTimestamp ==
    SegmenterReturned("extract_and_clean_chunks") =>
        /\ Len(ret.value) >= 1
        /\ \A k \in 1..Len(ret.value) :
              LET pair == ret.value[k]
                  places == StampPlaces(pair.text)
              IN  IF places = {} THEN pair.timestamp = <<>>
                  ELSE \E i \in places :
                          /\ \A j \in places : i <= j
                          /\ pair.timestamp = SubSeq(pair.text, i, i + 7)

\* several chunks came back: one holds more than one timestamp, one none
C16_Witness ==
    /\ SegmenterReturned("extract_and_clean_chunks")
    /\ Len(ret.value) >= 2
    /\ \E k \in 1..Len(ret.value) :
          /\ Cardinality(StampPlaces(ret.value[k].text)) >= 2
          /\ ret.value[k].timestamp # <<>>
    /\ \E k \in 1..Len(ret.value) :
          /\ ret.value[k].timestamp = <<>>
          /\ ret.value[k].text # <<>>

\* the deep link of a timestamp for the source URL X, written out
DeepLink(timestamp) ==
    CASE timestamp = TS_5s -> <<"0","0",":","0","0",":","0","5"," ","-"," ","X","&","t","=","5">>
      [] timestamp = TS_1h -> <<"0","1",":","0","2",":","0","3"," ","-"," ","X","&","t","=","3","7","2","3">>
      [] timestamp = TS_short -> <<"1",":","2",":","3"," ","-"," ","X","&","t","=","3","7","2","3">>

\* the piece the claim gives for one result
StatedPiece(result, type_of_source) ==
    IF result.timestamp = <<>> THEN result.summary
    ELSE (IF type_of_source = "YouTube Video" THEN DeepLink(result.timestamp)
          ELSE result.timestamp) \o <<"\n", "\n">> \o result.summary

\* C17: for a YouTube source with URL X a result with timestamp H:M:S is
\* rendered "<timestamp> - X&t=<3600*H + 60*M + S>", a blank line, its text;
\* a result without timestamp as its text; for any other source kind the
\* bare timestamp precedes the text; the pieces are joined in input order
\* with one blank line, so [("00:00:05","A"), ("","B")] gives
\* "00:00:05 - X&t=5\n\nA\n\nB".
C17_Assembled ==
    (/\ call.fn = "format_summary_with_timestamps"
     /\ ret.state = "returned"
     /\ \A k \in 1..Len(call.args.summaries) :
           call.args.summaries[k].timestamp # TS_words)
        => LET results == call.args.summaries
               kind == call.args.config.type_of_source
           IN  /\ Len(results) = 1 => ret.value = StatedPiece(results[1], kind)
               /\ Len(results) = 2 =>
                     ret.value = StatedPiece(results[1], kind) \o <<"\n", "\n">>
                                    \o StatedPiece(results[2], kind)
               /\ (/\ results = <<[timestamp |-> TS_5s, summary |-> SummaryA],
                                  [timestamp |-> <<>>, summary |-> SummaryB]>>
                   /\ kind = "YouTube Video")
                     => ret.value = <<"0","0",":","0","0",":","0","5"," ","-"," ","X","&","t","=","5","\n","\n","A","\n","\n","B">>

\* the example of the claim has been assembled
C17_Witness ==
    /\ call.fn = "format_summary_with_timestamps"
    /\ ret.state = "returned"
    /\ call.args.config.type_of_source = "YouTube Video"
    /\ call.args.summaries = <<[timestamp |-> TS_5s, summary |-> SummaryA],
                               [timestamp |-> <<>>, summary |-> SummaryB]>>
    /\ ret.value = <<"0","0",":","0","0",":","0","5"," ","-"," ","X","&","t","=","5","\n","\n","A","\n","\n","B">>

\* the envelope lacks the generated text: no "choices", an empty list, a
\* first choice without "message", or a message without "content"
LacksText(response) ==
    \/ ~response.has_choices
    \/ response.choices = <<>>
    \/ ~response.choices[1].has_message
    \/ ~response.choices[1].has_content

\* C18 as stated: for every envelope that lacks the generated text field
\* parse_response_content returns the empty string and raises nothing.  For
\* an empty "choices" list it raises IndexError.
C18_AsStated ==
    (/\ call.fn = "parse_response_content"
     /\ ret.state # "pending"
     /\ LacksText(call.args.response))
        => (ret.state = "returned" /\ ret.value = <<>>)

\* the documented precedence, written out for the base URLs of the calls:
\* the provider variables of the patterns the URL holds, in the order of
\* the provider table, and the variable named after the URL's domain
StatedProviderVars(base_url) ==
    CASE base_url = UrlGroq -> <<GROQ, OPENAI>>
      [] base_url = UrlOpenAI -> <<OPENAI>>
      [] base_url = UrlDeepseek -> <<DEEPSEEK>>
      [] OTHER -> <<>>

StatedDomainVars(base_url) ==
    CASE base_url = UrlGroq -> <<GROQ>>
      [] base_url = UrlOpenAI -> <<OPENAI>>
      [] base_url = UrlDeepseek -> <<DEEPSEEK>>
      [] base_url = UrlOther -> <<LLM>>
      [] OTHER -> <<>>

\* the variables to try for a URL, first to last
StatedChain(base_url) ==
    StatedProviderVars(base_url) \o StatedDomainVars(base_url) \o <<GENERIC_API_KEY>>

\* C19: get_api_key is a function of the config and the environment with one
\* precedence: the explicit api_key; else ConfigurationError without a
\* base_url; else the first variable that is set among the provider
\* variables of the patterns in the URL (in the order of the provider
\* table), the variable named after the domain, and "api_key"; else
\* APIKeyError.
C19_Precedence ==
    (call.fn = "get_api_key" /\ ret.state # "pending") =>
        LET cfg == call.args.cfg
            env == call.args.env
            chain == StatedChain(cfg.base_url)
            set == {k \in 1..Len(chain) : chain[k] \in env}
        IN  IF cfg.api_key # <<>>
            THEN ret.state = "returned" /\ ret.value = cfg.api_key
            ELSE IF cfg.base_url = UrlMissing
            THEN ret.state = "raised" /\ ret.value = "ConfigurationError"
            ELSE IF set = {}
            THEN ret.state = "raised" /\ ret.value = "APIKeyError"
            ELSE /\ ret.state = "returned"
                 /\ \E k \in set : /\ \A j \in set : k <= j
                                   /\ ret.value = <<"k", "=">> \o chain[k]

\* a URL that holds two provider patterns, both variables set: the key of
\* the earlier pattern came back
C19_Witness ==
    /\ call.fn = "get_api_key"
    /\ ret.state = "returned"
    /\ call.args.cfg = [api_key |-> <<>>, base_url |-> UrlGroq]
    /\ {GROQ, OPENAI} \subseteq call.args.env
    /\ ret.value = <<"k", "=">> \o GROQ

\* the slots taken and given back in a step
Takes == {i \in Positions : ~tasks[i].held /\ tasks'[i].held}
GivesBack == {i \in Positions : tasks[i].held /\ ~tasks'[i].held}

\* C20: a task takes a slot before its first request and holds it while it
\* issues requests; it gives the slot back once, at its end and only then,
\* however it ends; the free slots and the held slots always add up to the
\* limit, so that all slots are free once every task has ended.
C20_SlotsBalanced ==
    /\ [](/\ SemaphoreConsistent
          /\ \A i \in Positions :
               /\ tasks[i].pc \in {"post", "sleep_status", "sleep_exc"} => tasks[i].held
               /\ tasks[i].pc \in {"absent", "semwait", "done"} => ~tasks[i].held
               /\ tasks[i].pc = "semwait" => tasks[i].requests = 0
          /\ (semaphore.built /\ Pending = {}) =>
                semaphore.value = config.parallel_api_calls)
    /\ [][semaphore.built =>
            /\ semaphore'.value =
                  semaphore.value - Cardinality(Takes) + Cardinality(GivesBack)
            /\ \A i \in Positions :
                 /\ tasks'[i].requests > tasks[i].requests => tasks'[i].held
                 /\ i \in GivesBack => tasks'[i].pc = "done"]_vars

\* three ways to end in one run, all slots free afterwards: tasks that
\* held a slot ended on a returned value and on an exception, and the run
\* was interrupted
C20_Witness ==
    /\ semaphore.built
    /\ Pending = {}
    /\ semaphore.value = config.parallel_api_calls
    /\ \E i, j \in Submitted :
         /\ tasks[i].result.kind = "APIError" /\ tasks[i].requests > 0
         /\ tasks[j].cancel /\ tasks[j].requests > 0

(***************************************************************************)
(* Retry backoff                                                           *)
(***************************************************************************)
\* the seconds waited in all, when each of the failed attempts 0..n-1 was
\* followed by a wait of 2^k seconds: 1 + 2 + ... + 2^(n-1)
WaitedAfter(n) == 2 ^ n - 1

\* the task ended because its last attempt failed
Exhausted(i) ==
    /\ Ended(i)
    /\ ~tasks[i].cancel
    /\ tasks[i].result.failure \in {"status", "exc"}

\* the waits of a task that is still running: 2^k seconds after each failed
\* attempt k, and a wait only when another attempt is within the budget
BackoffSchedule(i) ==
    /\ tasks[i].pc = "post" => tasks[i].slept = WaitedAfter(tasks[i].attempt)
    /\ tasks[i].pc \in {"sleep_status", "sleep_exc"} =>
          /\ tasks[i].attempt + 1 < max_retries
          /\ tasks[i].slept = WaitedAfter(tasks[i].attempt + 1)

C22_AsStated ==
    \A r \in Runs : misuse[r] = {}

(***************************************************************************)
(* Strategy order of the DownloadManager                                   *)
(***************************************************************************)
\* the run went through DownloadManager.download_audio
ManagerCalled(r) ==
    /\ runs[r].pc # "start"
    /\ runs[r].source.type_of_source \in {"YouTube Video", "Video URL"}
    /\ runs[r].strategy # "captions"

\* the names of the temporary files of the two downloaders
YouTubeNames == {"yt_audio.mp4", "yt_audio.mp3"}
RelayNames == {"cobalt_audio.bin", "cobalt_audio.mp3"}

TouchedNames(r) == {p.name : p \in touched[r]}

\* C23: the YouTube strategy comes before the relay: a YouTube URL, which
\* both support, is handled by the YouTube downloader alone, also when that
\* download fails; the relay handles the other http(s) URLs only; a
\* locator neither supports ends with UnsupportedSourceError and no
\* downloader has run.
C23_YouTubeBeforeRelay ==
    \A r \in Runs :
        ManagerCalled(r) =>
            CASE runs[r].source.locator = "youtube" ->
                     /\ runs[r].strategy = "youtube"
                     /\ runs[r].pc # "resolve"
                     /\ TouchedNames(r) \subseteq YouTubeNames
              [] runs[r].source.locator = "http" ->
                     /\ runs[r].strategy = "cobalt"
                     /\ TouchedNames(r) \subseteq RelayNames
              [] OTHER ->
                     /\ runs[r].strategy = "unsupported"
                     /\ runs[r].pc = "ended"
                     /\ runs[r].outcome = "UnsupportedSourceError"
                     /\ invoked[r] = {}
                     /\ touched[r] = {}

\* a YouTube URL whose captions are not wanted was downloaded by the
\* YouTube downloader and transcribed, while the other run's plain http
\* URL went to the relay
C23_Witness ==
    \E r, o \in Runs :
        /\ ManagerCalled(r)
        /\ runs[r].source.locator = "youtube"
        /\ runs[r].outcome = "returned"
        /\ "yt_audio.mp3" \in TouchedNames(r)
        /\ ManagerCalled(o)
        /\ runs[o].source.locator = "http"
        /\ "cobalt_audio.bin" \in TouchedNames(o)

(***************************************************************************)
(* Chunk boundaries and sizes                                              *)
(***************************************************************************)
\* the chunk size chunk_text works with
EffectiveSize(chunk_size) ==
    IF chunk_size < MIN_CHUNK_SIZE THEN MIN_CHUNK_SIZE ELSE chunk_size

\* the paragraphs of the chunks, one list
RECURSIVE ParagraphsOf(_)
ParagraphsOf(pieces) ==
    IF pieces = <<>> THEN <<>>
    ELSE SplitLines(Head(pieces)) \o ParagraphsOf(Tail(pieces))

\* C24: the paragraphs of the returned chunks, taken in order, are the
\* paragraphs of the input, each whole and just once; a chunk longer than
\* the effective chunk size is a single paragraph.
C24_WholeParagraphs ==
    SegmenterReturned("chunk_text") =>
        /\ ParagraphsOf(ret.value) = SplitLines(call.args.text)
        /\ \A k \in 1..Len(ret.value) :
              TextLen(ret.value[k]) > EffectiveSize(call.args.chunk_size) =>
                  Len(SplitLines(ret.value[k])) = 1

\* a chunk of two paragraphs within the size, then a chunk that is one
\* paragraph longer than the size
C24_Witness ==
    /\ SegmenterReturned("chunk_text")
    /\ call.args.chunk_size = MIN_CHUNK_SIZE
    /\ Len(ret.value) = 2
    /\ Len(SplitLines(ret.value[1])) = 2
    /\ ret.value[2] = ParaOver
    /\ TextLen(ret.value[2]) > MIN_CHUNK_SIZE

\* C25: in the returned list no two adjacent chunks have lengths that add
\* up to less than half the effective chunk size.
C25_NoSmallNeighbours ==
    SegmenterReturned("chunk_text") =>
        \A k \in 1..(Len(ret.value) - 1) :
            2 * (TextLen(ret.value[k]) + TextLen(ret.value[k + 1]))
                >= EffectiveSize(call.args.chunk_size)

\* a chunk of the full size is followed by a last chunk of one word, which
\* could not be merged with it
C25_Witness ==
    /\ SegmenterReturned("chunk_text")
    /\ ret.value = <<ParaFull, ParaWord>>

\* the chunks of the first pass alone
FirstPass(text, chunk_size) ==
    GatherParagraphs(SplitLines(text), <<>>, <<>>, 0, EffectiveSize(chunk_size))

\* C30: chunk_text returns the chunks of its first pass unchanged, and two
\* consecutive chunks of the first pass have lengths that add up to at least
\* the effective chunk size minus 1.
C30_MergeChangesNothing ==
    SegmenterReturned("chunk_text") =>
        LET first == FirstPass(call.args.text, call.args.chunk_size) IN
        /\ ret.value = first
        /\ \A k \in 1..(Len(first) - 1) :
              TextLen(first[k]) + TextLen(first[k + 1])
                  >= EffectiveSize(call.args.chunk_size) - 1

\* the first pass made three chunks, the first and the last of them short
\* of half the chunk size, and all three came back
C30_Witness ==
    /\ SegmenterReturned("chunk_text")
    /\ Len(ret.value) = 3
    /\ 2 * TextLen(ret.value[1]) < EffectiveSize(call.args.chunk_size)
    /\ 2 * TextLen(ret.value[3]) < EffectiveSize(call.args.chunk_size)
    /\ ret.value = FirstPass(call.args.text, call.args.chunk_size)

(***************************************************************************)
(* The normalizer on reasoning markers                                     *)
(***************************************************************************)
\* the endpoint is taken for Perplexity
StatedPerplexity(base_url) == Contains(Lower(base_url), PERPLEXITY)

\* the text after the last "</think>" of content
AfterLastMarker(content) ==
    LET at == {i \in 1..Len(content) :
                  /\ i + Len(THINK_END) - 1 <= Len(content)
                  /\ SubSeq(content, i, i + Len(THINK_END) - 1) = THINK_END}
        last == CHOOSE i \in at : \A j \in at : j <= i
    IN  SubSeq(content, last + Len(THINK_END), Len(content))

\* the content field of a call that returned
ParsedContent == MessageContent(call.args.response)

ParseReturned == call.fn = "parse_response_content" /\ ret.state = "returned"

\* C26 as stated: for a Perplexity endpoint and a content with "</think>"
\* the result is the text after the last marker, trimmed; for every other
\* endpoint it is the content, trimmed.
C26_AsStated ==
    ParseReturned =>
        IF StatedPerplexity(call.args.base_url)
        THEN Contains(ParsedContent, THINK_END) =>
                ret.value = Strip(AfterLastMarker(ParsedContent))
        ELSE ret.value = Strip(ParsedContent)

\* C26, amended: for a Perplexity endpoint and a content with "</think>"
\* the result is the text after the last marker, trimmed and then freed of
\* a leading "```json" or "```" and a trailing "```"; for every other
\* endpoint it is the content, trimmed, markers and fences included.
C26_AfterLastMarkerUnfenced ==
    ParseReturned =>
        IF StatedPerplexity(call.args.base_url)
        THEN Contains(ParsedContent, THINK_END) =>
                /\ ret.value = StripFences(Strip(AfterLastMarker(ParsedContent)))
                /\ ~Contains(ret.value, THINK_END)
        ELSE ret.value = Strip(ParsedContent)

\* a content with the marker inside the reasoning went to an endpoint named
\* in capitals, and the text after the second marker came back
C26_Witness ==
    /\ ParseReturned
    /\ call.args.base_url = UrlPerplexityCaps
    /\ ParsedContent = ReplyThinkTwice
    /\ ret.value = <<"o","k">>

(***************************************************************************)
(* The explicit key                                                        *)
(***************************************************************************)
\* C27 as stated: a run started with an explicit api_key sends that key as
\* the bearer token of its generation requests, and reads no environment
\* variable for the key.
C27_AsStated ==
    credential.explicit # <<>> =>
        /\ ~credential.env_read
        /\ "generation_request" \in pipeline.calls =>
              credential.bearer = credential.explicit

(***************************************************************************)
(* Termination of the dispatch                                             *)
(***************************************************************************)
\* C28 as stated: once process_chunks has built its semaphore and created
\* its tasks, every task ends and process_chunks returns, unless the run is
\* interrupted from outside; no task waits on the semaphore for ever.
C28_AsStated ==
    (dispatch.pc = "gather") ~>
        \/ dispatch.pc = "returned" /\ Pending = {}
        \/ dispatch.pc = "cancelled"

(***************************************************************************)
(* The two copies of process_chunk                                         *)
(***************************************************************************)
ChunkReturned == call.fn = "process_chunk" /\ ret.state = "returned"

\* C29 as stated: for the same chunk, the same config and the same sequence
\* of backend outcomes, api.process_chunk and core.process_chunk issue the
\* same number of requests and end alike: the same returned text or the
\* same kind of failure.
C29_AsStated == ChunkReturned => ret.value.api = ret.value.core

====
